---------------------------- MODULE Spec2Model ----------------------------
(***************************************************************************)
(* A model of the PFS core: the path-name resolver (src/pfs/pname.c) and   *)
(* the UART character device with its interrupt-fed ring buffer            *)
(* (src/device/pfs_dev_uart.c).                                            *)
(*                                                                         *)
(* The flash adapter (src/flash/pfs_ffs.c), the SD card block shim         *)
(* (src/sdcard/ff_disk.c) and the construction, open and ioctl of the UART *)
(* devices are modelled call by call.                                      *)
(*                                                                         *)
(* Five specifications share the module.  SpecPname runs one call of       *)
(* pname_append on inputs drawn from a bounded set; SpecUart runs the      *)
(* receive routine, reads and ioctls of one UART device, the interrupt     *)
(* firing between the steps of the task; SpecUartTimed runs the reads of   *)
(* a configured device under fairness; SpecBackend runs whole calls of     *)
(* the flash adapter and of the UART devices, each with the results of     *)
(* the library calls it makes; SpecDisk runs the calls of the block shim   *)
(* over cards with and without a partition table.                          *)
(***************************************************************************)
EXTENDS Integers, Sequences, FiniteSets, TLC

(***************************************************************************)
(* Bounds of the model.                                                    *)
(***************************************************************************)
\* longest enumerated base path psPath1 (characters)
MaxBase == 2
\* longest enumerated addition psPath2 (characters)
MaxAdd == 3
\* most allocations that succeed inside one call before one returns NULL
MaxFail == 3

\* log2 of the ring buffer's length (the source has NDATA = 512 = 2^9)
LogN == 2
\* depth of the hardware receive FIFO
FifoMax == 1
\* longest read a caller asks for
MaxRead == 2
\* highest logical sector a caller of the block shim asks for
MaxSector == 1
\* most sectors a caller of the block shim asks for in one call
MaxCount == 2
\* width of a sector number in bits (the source has 32: LBA_t, uint32_t)
LbaBits == 4
\* largest size of a file on the flash (bytes)
MaxSize == 1

\* most calls made through the adapters in one run
MaxCalls == 3
\* most bytes a device receives between its construction and a purge
MaxRecv == 1

NULL == 0

VARIABLES
    \* ---- pname.c ----
    psPath1,    \* first argument of pname_append: a sequence of characters
    psPath2,    \* second argument of pname_append
    junk,       \* the bytes that follow a string's terminating NUL in memory
    heap,       \* every PNAME node allocated so far, by pointer (1..Len(heap))
    pn1,        \* pname_append: PNAME *pn1
    pn2,        \* pname_append: PNAME *pn2
    ps,         \* pname_append: char *ps, the buffer pname_mkname returns
    nomem,      \* whether some pfs_malloc of the call returned NULL
    ppc,        \* position inside pname_append
    \* ---- pfs_dev_uart.c: struct pfs_dev_uart and the UART's registers ----
    mode,       \* pud->mode, as its flags and its terminator byte
    tout,       \* pud->tout
    rptr,       \* pud->rptr
    wptr,       \* pud->wptr
    data,       \* pud->data
    rts,        \* UARTCR.RTS
    rxim,       \* UARTIMSC.RXIM
    rxfifo,     \* the bytes waiting in the hardware receive FIFO
    ucs,        \* pud->ucs: "free", or the context that holds it
    \* ---- the two contexts ----
    upc,        \* per context, its position inside uart_input
    wend,       \* per context, uart_input's local wend
    tpc,        \* the task's position (idle, or inside uart_read / uart_ioctl)
    length,     \* uart_read: length
    nread,      \* uart_read: nread
    stored,     \* uart_read: the byte last stored through bptr
    expired,    \* uart_read: time_reached (tend) has answered true
    count,      \* the value IOC_RQ_COUNT last stored through argp
    \* ---- history ----
    pending,    \* the bytes taken from the hardware and not yet read
    atcount,    \* Len(pending) when IOC_RQ_COUNT last ran
    acc,        \* the context whose last step touched rptr/wptr/data/RTS/RXIM
    purged,     \* "clean" or "raced": IOC_RQ_PURGE has returned and no byte was
                \* stored since ("raced": the handler stored one between the
                \* two resets); "racing": one was stored between them
    \* ---- pfs_dev_uart.c: construction; pfs_ffs.c ----
    uart_dev,   \* uart_dev[uid]: NULL or a pointer into dheap
    dheap,      \* the structs pfs_dev_uart allocated and not freed, by pointer
    uhw,        \* per UART, the state of the peripheral
    gpio,       \* the pins switched to GPIO_FUNC_UART
    files,      \* the file and directory handles allocated and not freed
    flash,      \* whether the flash holds a mountable filesystem
    tree,       \* the entries of that filesystem, by path
    buf,        \* the caller's struct stat
    fheap,      \* the struct ffs_pfs instances allocated and not freed
    errno,      \* the last error pfs_error recorded
    \* ---- ff_disk.c ----
    iStat,      \* iStat: 0, or STA_NOINIT
    lba_base,   \* lba_base
    mbr,        \* what physical sector 0 of the card holds
    call        \* the last call made through the adapters and its outcome

pvars == <<psPath1, psPath2, junk, heap, pn1, pn2, ps, nomem, ppc>>

uvars == <<mode, tout, rptr, wptr, data, rts, rxim, rxfifo, ucs, upc, wend,
           tpc, length, nread, stored, expired, count, pending, atcount, acc,
           purged>>

bvars == <<uart_dev, dheap, uhw, gpio, files, flash, tree, buf, fheap, errno,
           iStat, lba_base, mbr, call>>

vars == <<pvars, uvars, bvars>>

(***************************************************************************)
(* Strings.  A C string is a sequence of one-character strings; Mem gives  *)
(* the byte at a 0-based offset: the characters, the terminating NUL, and  *)
(* beyond it whatever the memory holds (junk, then NUL).                   *)
(***************************************************************************)
NUL == "NUL"
Sep == {"/", "\\"}

Mem(s, i) ==
    IF i < Len(s) THEN s[i + 1]
    ELSE IF i = Len(s) THEN NUL
    ELSE IF i - Len(s) <= Len(junk) THEN junk[i - Len(s)]
    ELSE NUL

Str(sid) == IF sid = 1 THEN psPath1 ELSE psPath2

(***************************************************************************)
(* PNAME nodes.  str = 0 is the name &rootdir; otherwise the name is the   *)
(* view Str(str)[off .. off+len-1].  frees counts the pfs_free calls on    *)
(* the node.                                                               *)
(***************************************************************************)
Node(prev, next, str, off, len) ==
    [prev |-> prev, next |-> next, str |-> str, off |-> off, len |-> len, frees |-> 0]

\* pe->name[k]
NameChar(h, pe, k) ==
    IF h[pe].str = 0 THEN (IF k = 0 THEN "/" ELSE NUL)
    ELSE Mem(Str(h[pe].str), h[pe].off + k)

pfs_free(h, p) == [h EXCEPT ![p].frees = @ + 1]

\* the allocation budget: f > 0 mallocs still succeed, f = 0 the next one
\* returns NULL, f < 0 none fails
Dec(f) == IF f > 0 THEN f - 1 ELSE f

RECURSIVE CleanFrom(_, _, _, _)
CleanFrom(h, pn, pe1, fuel) ==
    IF pe1 = pn \/ pe1 = NULL \/ fuel = 0 THEN h
    ELSE CleanFrom(pfs_free(h, pe1), pn, h[pe1].next, fuel - 1)

pname_clean(h, pn) ==
    LET h1 == CleanFrom(h, pn, h[pn].next, Len(h))
    IN [h1 EXCEPT ![pn].prev = pn, ![pn].next = pn]

pname_delete(h, pn) == pfs_free(pname_clean(h, pn), pn)

pname_link(h, pn, pe) ==
    LET h1 == [h EXCEPT ![pe].prev = h[pn].prev, ![pe].next = pn]
        h2 == [h1 EXCEPT ![h1[pn].prev].next = pe]
    IN [h2 EXCEPT ![pn].prev = pe]

pname_unlink(h, pe) ==
    LET pep == h[pe].prev
        pen == h[pe].next
        h1 == [h EXCEPT ![pep].next = pen]
        h2 == [h1 EXCEPT ![pen].prev = pep]
    IN [h2 EXCEPT ![pe].prev = NULL, ![pe].next = NULL]

\* while (( *ps1 == '/' ) || ( *ps1 == '\\' )) ++ps1;
RECURSIVE SkipSep(_, _)
SkipSep(s, i) == IF Mem(s, i) \in Sep THEN SkipSep(s, i + 1) ELSE i

\* while (( *ps2 != '/' ) && ( *ps2 != '\\' ) && ( ps2 < pend )) ++ps2;
RECURSIVE SegEnd(_, _)
SegEnd(s, i) ==
    IF Mem(s, i) \notin Sep /\ i < Len(s) THEN SegEnd(s, i + 1) ELSE i

\* a scan that keeps single-dot segments
KeepSeg_All(s, p1, ps2) == TRUE

\* line 83: ( ps2 > ps1 + 1 ) || ( *ps1 != '.' )
KeepSeg(s, p1, ps2) == (ps2 > p1 + 1) \/ (Mem(s, p1) # ".")

\* the while (true) loop of pname_scan, entered with ps1
RECURSIVE ScanLoop(_, _, _, _, _)
ScanLoop(h, f, pn, sid, ps1) ==
    LET s == Str(sid)
        p1 == SkipSep(s, ps1)
        ps2 == SegEnd(s, p1)
        pe == Len(h) + 1
    IN IF p1 >= Len(s) THEN [heap |-> h, ok |-> TRUE]
       ELSE IF KeepSeg(s, p1, ps2)
       THEN IF f = 0 THEN [heap |-> h, ok |-> FALSE]
            ELSE ScanLoop(pname_link(Append(h, Node(NULL, NULL, sid, p1, ps2 - p1)), pn, pe),
                          Dec(f), pn, sid, ps2 + 1)
       ELSE ScanLoop(h, f, pn, sid, ps2 + 1)

pname_scan(h, f, pn, sid) ==
    LET pe == Len(h) + 1
    IN IF Mem(Str(sid), 0) \in Sep
       THEN IF f = 0 THEN [heap |-> h, ok |-> FALSE]
            ELSE ScanLoop(pname_link(Append(h, Node(NULL, NULL, 0, 0, 1)), pn, pe),
                          Dec(f), pn, sid, 1)
       ELSE ScanLoop(h, f, pn, sid, 0)

\* a pname_create that forgets pname_delete (pn) when the scan fails
pname_create_Leak(h, f, sid) ==
    LET pn == Len(h) + 1
        r == pname_scan(Append(h, Node(pn, pn, sid, 0, Len(Str(sid)))), Dec(f), pn, sid)
    IN IF f = 0 THEN [heap |-> h, pn |-> NULL]
       ELSE IF r.ok THEN [heap |-> r.heap, pn |-> pn]
       ELSE [heap |-> r.heap, pn |-> NULL]

pname_create(h, f, sid) ==
    LET pn == Len(h) + 1
        r == pname_scan(Append(h, Node(pn, pn, sid, 0, Len(Str(sid)))), Dec(f), pn, sid)
    IN IF f = 0 THEN [heap |-> h, pn |-> NULL]
       ELSE IF r.ok THEN [heap |-> r.heap, pn |-> pn]
       ELSE [heap |-> pname_delete(r.heap, pn), pn |-> NULL]

\* ( pe2->len == 2 ) && ( pe2->name[0] == '.' ) && ( pe2->name[1] == '.' )
IsDotDot(h, pe) ==
    h[pe].len = 2 /\ NameChar(h, pe, 0) = "." /\ NameChar(h, pe, 1) = "."

\* pe->name[0] == '/' : the test the code uses for the root marker
IsRoot(h, pe) == NameChar(h, pe, 0) = "/"

\* a ".." that never drops a segment
CanAscend_Never(h, p1, pe1) == FALSE

\* a ".." that drops the root marker too
CanAscend_PastRoot(h, p1, pe1) == pe1 # p1

\* line 121: ( pe1 != pn1 ) && ( pe1->name[0] != '/' )
CanAscend(h, p1, pe1) == pe1 # p1 /\ ~IsRoot(h, pe1)

\* an absolute addition that is appended to the base
ReplacesBase_Never(h, pe2) == FALSE

\* line 130: if ( pe2->name[0] == '/' ) pname_clean (pn1);
ReplacesBase(h, pe2) == IsRoot(h, pe2)

\* one pass of the while loop of pname_join
JoinIter(h, p1, p2) ==
    LET pe2 == h[p2].next
        h1 == pname_unlink(h, pe2)
        pe1 == h1[p1].prev
    IN IF IsDotDot(h1, pe2)
       THEN pfs_free(IF CanAscend(h1, p1, pe1)
                     THEN pfs_free(pname_unlink(h1, pe1), pe1)
                     ELSE h1, pe2)
       ELSE pname_link(IF ReplacesBase(h1, pe2) THEN pname_clean(h1, p1) ELSE h1, p1, pe2)

\* ( pn2->next != pn2 ) && ( pn2->next != NULL )
JoinMore(h, p2) == h[p2].next # p2 /\ h[p2].next # NULL

RECURSIVE JoinAll(_, _, _, _)
JoinAll(h, p1, p2, fuel) ==
    IF JoinMore(h, p2) /\ fuel > 0 THEN JoinAll(JoinIter(h, p1, p2), p1, p2, fuel - 1)
    ELSE h

pname_join(h, p1, p2) == JoinAll(h, p1, p2, Len(h))

\* the nodes from pe along next up to the sentinel pn (or NULL)
RECURSIVE NodesFrom(_, _, _, _)
NodesFrom(h, pn, pe, fuel) ==
    IF pe = pn \/ pe = NULL \/ fuel = 0 THEN <<>>
    ELSE <<pe>> \o NodesFrom(h, pn, h[pe].next, fuel - 1)

List(h, pn) == NodesFrom(h, pn, h[pn].next, Len(h))

\* the characters strncpy (ps, pe->name, pe->len) copies
Name(h, pe) == [k \in 1..h[pe].len |-> NameChar(h, pe, k - 1)]

RECURSIVE SumLen(_, _)
SumLen(h, l) == IF l = <<>> THEN 0 ELSE h[Head(l)].len + 1 + SumLen(h, Tail(l))

\* a serializer that writes no '/' before the first segment of a list
\* without a root marker
RECURSIVE Emit_Relative(_, _)
Emit_Relative(h, l) ==
    IF l = <<>> THEN <<>>
    ELSE IF IsRoot(h, Head(l)) THEN <<"/">> \o Emit_Relative(h, Tail(l))
    ELSE Name(h, Head(l))
         \o (IF Len(l) > 1 /\ ~IsRoot(h, l[2]) THEN <<"/">> ELSE <<>>)
         \o Emit_Relative(h, Tail(l))

\* the second loop of pname_mkname: what is written for the nodes of l
RECURSIVE Emit(_, _)
Emit(h, l) ==
    IF l = <<>> THEN <<>>
    ELSE (IF ~IsRoot(h, Head(l)) THEN <<"/">> \o Name(h, Head(l)) ELSE <<>>)
         \o Emit(h, Tail(l))

\* the bytes pname_mkname writes from psName on, the terminating NUL last
Written(h, pn) ==
    LET e == Emit(h, List(h, pn))
    IN (IF e = <<>> THEN <<"/">> ELSE e) \o <<NUL>>

\* a char * that is NULL
NullBuf == [size |-> 0, bytes |-> <<>>]

\* pname_mkname: NULL, or the buffer (size: the bytes requested from
\* pfs_malloc; bytes: the bytes written from its start, in order)
pname_mkname(h, f, pn) ==
    IF f = 0 THEN NullBuf
    ELSE [size |-> SumLen(h, List(h, pn)) + 1, bytes |-> Written(h, pn)]

(***************************************************************************)
(* pname_append, one action per call it makes; pname_join one action per   *)
(* pass of its loop.  Each action that allocates draws the number of       *)
(* allocations that succeed before pfs_malloc returns NULL.                *)
(***************************************************************************)
FailChoices == -1 .. MaxFail

\* PNAME *pn1 = pname_create (psPath1); if ( pn1 == NULL ) return NULL;
PnCreate1 ==
    /\ ppc = "create1"
    /\ \E f \in FailChoices :
         LET r == pname_create(heap, f, 1)
         IN /\ heap' = r.heap
            /\ pn1' = r.pn
            /\ nomem' = (r.pn = NULL)
            /\ ppc' = IF r.pn = NULL THEN "done" ELSE "create2"
    /\ UNCHANGED <<psPath1, psPath2, junk, pn2, ps, uvars, bvars>>

\* PNAME *pn2 = pname_create (psPath2);
\* if ( pn2 == NULL ) { pname_delete (pn1); return NULL; }
PnCreate2 ==
    /\ ppc = "create2"
    /\ \E f \in FailChoices :
         LET r == pname_create(heap, f, 2)
         IN /\ heap' = IF r.pn = NULL THEN pname_delete(r.heap, pn1) ELSE r.heap
            /\ pn2' = r.pn
            /\ nomem' = (r.pn = NULL)
            /\ ppc' = IF r.pn = NULL THEN "done" ELSE "join"
    /\ UNCHANGED <<psPath1, psPath2, junk, pn1, ps, uvars, bvars>>

\* one pass of the loop of pname_join (pn1, pn2)
PnJoinStep ==
    /\ ppc = "join"
    /\ JoinMore(heap, pn2)
    /\ heap' = JoinIter(heap, pn1, pn2)
    /\ UNCHANGED <<psPath1, psPath2, junk, pn1, pn2, ps, nomem, ppc, uvars, bvars>>

\* the loop of pname_join ends; char *ps = pname_mkname (pn1);
PnMkname ==
    /\ ppc = "join"
    /\ ~JoinMore(heap, pn2)
    /\ \E f \in {-1, 0} :
         /\ ps' = pname_mkname(heap, f, pn1)
         /\ nomem' = (f = 0)
    /\ ppc' = "delete"
    /\ UNCHANGED <<psPath1, psPath2, junk, heap, pn1, pn2, uvars, bvars>>

\* pname_delete (pn1); pname_delete (pn2); return ps;
PnDelete ==
    /\ ppc = "delete"
    /\ heap' = pname_delete(pname_delete(heap, pn1), pn2)
    /\ ppc' = "done"
    /\ UNCHANGED <<psPath1, psPath2, junk, pn1, pn2, ps, nomem, uvars, bvars>>

PnNext == PnCreate1 \/ PnCreate2 \/ PnJoinStep \/ PnMkname \/ PnDelete

(***************************************************************************)
(* The inputs: every base of at most MaxBase characters over Alphabet (and  *)
(* three longer ones) with every addition of at most MaxAdd characters,    *)
(* and the path pairs of the specification's examples.                     *)
(***************************************************************************)
Alphabet == {"/", "\\", ".", "a"}

Enumerated(n) == UNION {[1..k -> Alphabet] : k \in 0..n}

LongBases == { <<"a","/","a">>, <<"/","a","/","a">>, <<"/","a","\\",".",".">> }

ExamplePairs ==
    { << <<"/","u","s","r","/","l","o","c","a","l">>, <<".",".","/","b","i","n">> >>,
      << <<"/","a">>, <<".","/","b","/",".","/","c">> >>,
      << <<"r","e","l","/","p","a","t","h">>, <<".",".","/",".",".","/","x">> >>,
      << <<"/">>, <<".",".">> >>,
      << <<"/","a">>, <<"/","b">> >>,
      << <<"a","\\","b">>, <<".",".","\\","\\","c","\\",".">> >>,
      << <<"a","/","b">>, <<"\\","c">> >>,
      << <<"\\","a">>, <<".",".","/",".",".","/","b">> >> }

\* what may follow a string's terminator in memory
JunkChoices == { <<"/">>, <<"a">> }

PnInit ==
    /\ \E p \in ((Enumerated(MaxBase) \cup LongBases) \X Enumerated(MaxAdd))
                \cup ExamplePairs :
         /\ psPath1 = p[1]
         /\ psPath2 = p[2]
    /\ junk \in JunkChoices
    /\ heap = <<>>
    /\ pn1 = NULL
    /\ pn2 = NULL
    /\ ps = NullBuf
    /\ nomem = FALSE
    /\ ppc = "create1"

\* no call of pname_append is in progress
PnIdle ==
    /\ psPath1 = <<>>
    /\ psPath2 = <<>>
    /\ junk = <<"a">>
    /\ heap = <<>>
    /\ pn1 = NULL
    /\ pn2 = NULL
    /\ ps = NullBuf
    /\ nomem = FALSE
    /\ ppc = "idle"

(***************************************************************************)
(* The UART device.                                                        *)
(*                                                                         *)
(* Two contexts run the code: the task (uart_read, uart_ioctl) and the     *)
(* receive interrupt (irq_uart0/1 -> uart_input).  The interrupt preempts  *)
(* the task between any two of its steps unless the task holds the         *)
(* critical section (which disables interrupts); the task never runs       *)
(* while a handler is in progress.  The hardware receives bytes into its   *)
(* FIFO at any time.                                                       *)
(***************************************************************************)
NDATA == 2 ^ LogN

\* x & ( NDATA - 1 ), NDATA a power of two, x in two's complement
Mask(x) == x % NDATA

Ctx == {"task", "irq"}

\* the bytes the line delivers; '\r' is the terminator of the default mode
Bytes == {"a", "\r"}

\* pud->mode: IOC_MD_NBLOCK, IOC_MD_ANY, IOC_MD_CHR, IOC_MD_TLF and the
\* terminator in the low byte
Mode(nblock, any, chr, tlf, term) ==
    [nblock |-> nblock, any |-> any, chr |-> chr, tlf |-> tlf, term |-> term]

\* IOC_MD_CR | IOC_MD_TLF
DefaultMode == Mode(FALSE, FALSE, TRUE, TRUE, "\r")

Modes == { DefaultMode,
           Mode(FALSE, FALSE, TRUE, FALSE, "\r"),
           Mode(FALSE, FALSE, FALSE, FALSE, "NUL"),
           Mode(TRUE, FALSE, FALSE, FALSE, "NUL"),
           Mode(FALSE, TRUE, FALSE, FALSE, "NUL") }

Touts == {0, 1}

\* a device at rest with its mode in M, its timeout in T and its ring
\* buffer empty over the bytes D
UartSet(M, T, D) ==
    /\ mode \in M
    /\ tout \in T
    /\ rptr = 0
    /\ wptr = 0
    /\ data \in D
    /\ rts = TRUE
    /\ rxim = TRUE
    /\ rxfifo = <<>>
    /\ ucs = "free"
    /\ upc = [c \in Ctx |-> "none"]
    /\ wend = [c \in Ctx |-> 0]
    /\ tpc = "idle"
    /\ length = 0
    /\ nread = 0
    /\ stored = NUL
    /\ expired = FALSE
    /\ count = 0
    /\ pending = <<>>
    /\ atcount = 0
    /\ acc = "none"
    /\ purged = "no"

\* the state pfs_dev_uart_create and uopen leave; data comes from pfs_malloc
\* and holds anything
UartInit(D) == UartSet({DefaultMode}, {0}, D)

\* a byte arrives from the line
HwArrive ==
    /\ Len(rxfifo) < FifoMax
    /\ \E b \in Bytes : rxfifo' = Append(rxfifo, b)
    /\ UNCHANGED <<mode, tout, rptr, wptr, data, rts, rxim, ucs, upc, wend,
                   tpc, length, nread, stored, expired, count, pending, atcount, acc, purged, pvars, bvars>>

(***************************************************************************)
(* uart_input, run by context c.                                           *)
(***************************************************************************)
\* may context c call uart_input now
UiCalled(c) ==
    IF c = "irq" THEN rxim /\ rxfifo # <<>>
    ELSE tpc \in {"ui84", "ui96"}

\* a receive loop that does not stop at a full buffer
UiMore_NoFullTest(c) == rxfifo # <<>>

\* ( pud->wptr != wend ) && ( uart_is_readable (pud->uart) )
UiMore(c) == wptr # wend[c] /\ rxfifo # <<>>

\* a receive routine that never engages backpressure
UiFull_Never(c) == FALSE

\* line 59: if ( pud->wptr == wend )
UiFull(c) == wptr = wend[c]

\* critical_section_enter_blocking; int wend = ( pud->rptr - 1 ) & ( NDATA - 1 );
UiEnter(c) ==
    /\ upc[c] = "none"
    /\ UiCalled(c)
    /\ ucs = "free"
    /\ ucs' = c
    /\ wend' = [wend EXCEPT ![c] = Mask(rptr - 1)]
    /\ upc' = [upc EXCEPT ![c] = "loop"]
    /\ acc' = c
    /\ UNCHANGED <<mode, tout, rptr, wptr, data, rts, rxim, rxfifo,
                   tpc, length, nread, stored, expired, count, pending, atcount, purged, pvars, bvars>>

\* one pass of the while loop: pud->data[pud->wptr] = uart_getc (pud->uart);
\* pud->wptr = (++pud->wptr) & ( NDATA - 1 );
UiLoop(c) ==
    /\ upc[c] = "loop"
    /\ UiMore(c)
    /\ data' = [data EXCEPT ![wptr] = Head(rxfifo)]
    /\ rxfifo' = Tail(rxfifo)
    /\ wptr' = Mask(wptr + 1)
    /\ pending' = Append(pending, Head(rxfifo))
    /\ acc' = c
    /\ purged' = IF c = "irq" /\ tpc = "l135" THEN "racing" ELSE "no"
    /\ UNCHANGED <<mode, tout, rptr, rts, rxim, ucs, upc, wend,
                   tpc, length, nread, stored, expired, count, atcount, pvars, bvars>>

\* the loop ends; if ( pud->wptr == wend ) clear RTS and RXIM
UiCheck(c) ==
    /\ upc[c] = "loop"
    /\ ~UiMore(c)
    /\ rts' = IF UiFull(c) THEN FALSE ELSE rts
    /\ rxim' = IF UiFull(c) THEN FALSE ELSE rxim
    /\ upc' = [upc EXCEPT ![c] = "exit"]
    /\ acc' = c
    /\ UNCHANGED <<mode, tout, rptr, wptr, data, rxfifo, ucs, wend,
                   tpc, length, nread, stored, expired, count, pending, atcount, purged, pvars, bvars>>

\* where the task continues after its call of uart_input
UiReturn(c) ==
    IF c = "irq" THEN tpc ELSE IF tpc = "ui84" THEN "l85" ELSE "l92"

\* critical_section_exit, and the return to the caller
UiExit(c) ==
    /\ upc[c] = "exit"
    /\ ucs' = "free"
    /\ upc' = [upc EXCEPT ![c] = "none"]
    /\ wend' = [wend EXCEPT ![c] = 0]
    /\ tpc' = UiReturn(c)
    /\ acc' = "none"
    /\ UNCHANGED <<mode, tout, rptr, wptr, data, rts, rxim, rxfifo,
                   length, nread, stored, expired, count, pending, atcount, purged, pvars, bvars>>

(***************************************************************************)
(* uart_read.  A task step needs the CPU: no handler is in progress.       *)
(***************************************************************************)
TaskRuns == ucs # "irq"

\* lines 79-84: the locals, and the call uart_input (pud)
RdStart ==
    /\ tpc = "idle"
    /\ TaskRuns
    /\ \E n \in 0..MaxRead : length' = n
    /\ nread' = 0
    /\ stored' = NUL
    /\ expired' = FALSE
    /\ tpc' = "ui84"
    /\ acc' = "none"
    /\ UNCHANGED <<mode, tout, rptr, wptr, data, rts, rxim, rxfifo, ucs, upc, wend,
                   count, pending, atcount, purged, pvars, bvars>>

\* a read that does not look at IOC_MD_NBLOCK
RdGiveUp_IgnoresNblock == rptr = wptr /\ mode.any /\ nread > 0

\* lines 87-91: the buffer is empty and the mode says not to wait
RdGiveUp == rptr = wptr /\ (mode.nblock \/ (mode.any /\ nread > 0))

\* a read that returns at once when nothing is left to copy, skipping
\* lines 110-113
Rd85_EarlyReturn ==
    /\ tpc = "l85"
    /\ TaskRuns
    /\ tpc' = IF length = 0 THEN "idle" ELSE IF ~RdGiveUp THEN "l92" ELSE "l110"
    /\ acc' = IF length > 0 THEN "task" ELSE "none"
    /\ UNCHANGED <<mode, tout, rptr, wptr, data, rts, rxim, rxfifo, ucs, upc, wend,
                   length, nread, stored, expired, count, pending, atcount, purged, pvars, bvars>>

\* lines 85-91: while (length > 0) and the two breaks on an empty buffer
Rd85 ==
    /\ tpc = "l85"
    /\ TaskRuns
    /\ tpc' = IF length > 0 /\ ~RdGiveUp THEN "l92" ELSE "l110"
    /\ acc' = IF length > 0 THEN "task" ELSE "none"
    /\ UNCHANGED <<mode, tout, rptr, wptr, data, rts, rxim, rxfifo, ucs, upc, wend,
                   length, nread, stored, expired, count, pending, atcount, purged, pvars, bvars>>

\* a deadline that starts again: time_reached may answer false after it
\* has answered true
TimeReached_Restarts == IF tout > 0 THEN {TRUE, FALSE} ELSE {FALSE}

\* the answers time_reached (tend) can give now: never true without a
\* timeout, and true for good once it has been true
TimeReached ==
    IF expired THEN {TRUE} ELSE IF tout > 0 THEN {TRUE, FALSE} ELSE {FALSE}

\* lines 92-97: while ( rptr == wptr ) { if ( time_reached (tend) ) break;
\* uart_input (pud); }
Rd92 ==
    /\ tpc = "l92"
    /\ TaskRuns
    /\ IF rptr = wptr
       THEN \E e \in TimeReached :
              /\ expired' = e
              /\ tpc' = IF e THEN "l98" ELSE "ui96"
       ELSE /\ expired' = expired
            /\ tpc' = "l98"
    /\ acc' = "task"
    /\ UNCHANGED <<mode, tout, rptr, wptr, data, rts, rxim, rxfifo, ucs, upc, wend,
                   length, nread, stored, count, pending, atcount, purged, pvars, bvars>>

\* a read that copies the byte after the one at rptr
Rd98_ReadsAhead ==
    /\ tpc = "l98"
    /\ TaskRuns
    /\ IF rptr = wptr
       THEN /\ tpc' = "l110"
            /\ stored' = stored
       ELSE /\ tpc' = "l100"
            /\ stored' = data[Mask(rptr + 1)]
    /\ acc' = "task"
    /\ UNCHANGED <<mode, tout, rptr, wptr, data, rts, rxim, rxfifo, ucs, upc, wend,
                   length, nread, expired, count, pending, atcount, purged, pvars, bvars>>

\* lines 98-99: if ( rptr == wptr ) break; *bptr = pud->data[pud->rptr];
Rd98 ==
    /\ tpc = "l98"
    /\ TaskRuns
    /\ IF rptr = wptr
       THEN /\ tpc' = "l110"
            /\ stored' = stored
       ELSE /\ tpc' = "l100"
            /\ stored' = data[rptr]
    /\ acc' = "task"
    /\ UNCHANGED <<mode, tout, rptr, wptr, data, rts, rxim, rxfifo, ucs, upc, wend,
                   length, nread, expired, count, pending, atcount, purged, pvars, bvars>>

\* a read that never tests for the terminator
RdMatch_Never(b) == FALSE

\* lines 103-107: the byte just stored is the terminator
RdMatch(b) == mode.chr /\ b = mode.term

\* lines 101-108, after *bptr was stored
RdCounted ==
    /\ nread' = nread + 1
    /\ length' = length - 1
    /\ stored' = IF RdMatch(stored) /\ mode.tlf THEN "\n" ELSE stored
    /\ tpc' = IF RdMatch(stored) THEN "l110" ELSE "l85"

\* line 100, pud->rptr = (++pud->rptr) & ( NDATA - 1 ), as one store; then
\* lines 101-108
Rd100 ==
    /\ tpc = "l100"
    /\ TaskRuns
    /\ rptr' = Mask(rptr + 1)
    /\ pending' = Tail(pending)
    /\ RdCounted
    /\ acc' = "task"
    /\ UNCHANGED <<mode, tout, wptr, data, rts, rxim, rxfifo, ucs, upc, wend,
                   expired, count, atcount, purged, pvars, bvars>>

\* line 100 as two stores (rptr is modified twice without a sequence point):
\* first ++pud->rptr
Rd100a ==
    /\ tpc = "l100"
    /\ TaskRuns
    /\ rptr' = rptr + 1
    /\ pending' = Tail(pending)
    /\ tpc' = "l100b"
    /\ acc' = "task"
    /\ UNCHANGED <<mode, tout, wptr, data, rts, rxim, rxfifo, ucs, upc, wend,
                   length, nread, stored, expired, count, atcount, purged, pvars, bvars>>

\* then the masked value; lines 101-108
Rd100b ==
    /\ tpc = "l100b"
    /\ TaskRuns
    /\ rptr' = Mask(rptr)
    /\ RdCounted
    /\ acc' = "task"
    /\ UNCHANGED <<mode, tout, wptr, data, rts, rxim, rxfifo, ucs, upc, wend,
                   expired, count, pending, atcount, purged, pvars, bvars>>

\* lines 110-112: critical_section_enter_blocking; set RTS and RXIM
Rd110 ==
    /\ tpc = "l110"
    /\ ucs = "free"
    /\ ucs' = "task"
    /\ rts' = TRUE
    /\ rxim' = TRUE
    /\ tpc' = "l113"
    /\ acc' = "task"
    /\ UNCHANGED <<mode, tout, rptr, wptr, data, rxfifo, upc, wend,
                   length, nread, stored, expired, count, pending, atcount, purged, pvars, bvars>>

\* lines 113-114: critical_section_exit; return nread (the locals end here)
Rd113 ==
    /\ tpc = "l113"
    /\ ucs' = "free"
    /\ tpc' = "idle"
    /\ length' = 0
    /\ nread' = 0
    /\ stored' = NUL
    /\ expired' = FALSE
    /\ acc' = "none"
    /\ UNCHANGED <<mode, tout, rptr, wptr, data, rts, rxim, rxfifo, upc, wend,
                   count, pending, atcount, purged, pvars, bvars>>

(***************************************************************************)
(* uart_ioctl.                                                             *)
(***************************************************************************)
\* case IOC_RQ_MODE: pud->mode = *((int *) argp);
IoMode ==
    /\ tpc = "idle"
    /\ TaskRuns
    /\ \E m \in Modes : mode' = m
    /\ acc' = "none"
    /\ UNCHANGED <<tout, rptr, wptr, data, rts, rxim, rxfifo, ucs, upc, wend,
                   tpc, length, nread, stored, expired, count, pending, atcount, purged, pvars, bvars>>

\* case IOC_RQ_TOUT: pud->tout = *((int *) argp);
IoTout ==
    /\ tpc = "idle"
    /\ TaskRuns
    /\ \E t \in Touts : tout' = t
    /\ acc' = "none"
    /\ UNCHANGED <<mode, rptr, wptr, data, rts, rxim, rxfifo, ucs, upc, wend,
                   tpc, length, nread, stored, expired, count, pending, atcount, purged, pvars, bvars>>

\* case IOC_RQ_PURGE, line 134: pud->rptr = 0;
IoPurge134 ==
    /\ tpc = "idle"
    /\ TaskRuns
    /\ rptr' = 0
    /\ tpc' = "l135"
    /\ acc' = "task"
    /\ UNCHANGED <<mode, tout, wptr, data, rts, rxim, rxfifo, ucs, upc, wend,
                   length, nread, stored, expired, count, pending, atcount, purged, pvars, bvars>>

\* a purge that resets the read index only
IoPurge135_KeepsWptr ==
    /\ tpc = "l135"
    /\ TaskRuns
    /\ wptr' = wptr
    /\ pending' = <<>>
    /\ tpc' = "idle"
    /\ acc' = "task"
    /\ purged' = IF purged = "racing" THEN "raced" ELSE "clean"
    /\ UNCHANGED <<mode, tout, rptr, data, rts, rxim, rxfifo, ucs, upc, wend,
                   length, nread, stored, expired, count, atcount, pvars, bvars>>

\* line 135: pud->wptr = 0; everything received so far is discarded
IoPurge135 ==
    /\ tpc = "l135"
    /\ TaskRuns
    /\ wptr' = 0
    /\ pending' = <<>>
    /\ tpc' = "idle"
    /\ acc' = "task"
    /\ purged' = IF purged = "racing" THEN "raced" ELSE "clean"
    /\ UNCHANGED <<mode, tout, rptr, data, rts, rxim, rxfifo, ucs, upc, wend,
                   length, nread, stored, expired, count, atcount, pvars, bvars>>

\* case IOC_RQ_COUNT: *((int *) argp) = (pud->wptr - pud->rptr) & (NDATA - 1);
IoCount ==
    /\ tpc = "idle"
    /\ TaskRuns
    /\ count' = Mask(wptr - rptr)
    /\ atcount' = Len(pending)
    /\ tpc' = "l158"
    /\ acc' = "task"
    /\ UNCHANGED <<mode, tout, rptr, wptr, data, rts, rxim, rxfifo, ucs, upc, wend,
                   length, nread, stored, expired, pending, purged, pvars, bvars>>

\* line 158 after IOC_RQ_COUNT: return ierr; the caller takes the count
IoCountRet ==
    /\ tpc = "l158"
    /\ TaskRuns
    /\ count' = 0
    /\ atcount' = 0
    /\ tpc' = "idle"
    /\ acc' = "none"
    /\ UNCHANGED <<mode, tout, rptr, wptr, data, rts, rxim, rxfifo, ucs, upc, wend,
                   length, nread, stored, expired, pending, purged, pvars, bvars>>

UartNext ==
    \/ HwArrive
    \/ \E c \in Ctx : UiEnter(c)
    \/ \E c \in Ctx : UiLoop(c)
    \/ \E c \in Ctx : UiCheck(c)
    \/ \E c \in Ctx : UiExit(c)
    \/ RdStart \/ Rd85 \/ Rd92 \/ Rd98 \/ Rd100 \/ Rd100a \/ Rd100b \/ Rd110 \/ Rd113
    \/ IoMode \/ IoTout \/ IoPurge134 \/ IoPurge135 \/ IoCount \/ IoCountRet

(***************************************************************************)
(* The common error convention.  pfs_error and the dispatch through the    *)
(* capability sets live in the PFS base layer, which is outside these      *)
(* sources; they are modelled as the specification describes them.         *)
(***************************************************************************)
ENOMEM == 12
EINVAL == 22
\* the code the base layer reports for an absent entry (NotSupported)
ENOTSUP == 134

\* pfs_error (ierr): record a non-zero code as the last error and return
\* the failure sentinel; 0 is no error
pfs_error(e, ierr) ==
    [ret |-> IF ierr = 0 THEN 0 ELSE -1, errno |-> IF ierr = 0 THEN e ELSE ierr]

\* pfs_error (ierr), as an entry of a call's log
Err(ierr) == <<<<"pfs_error", ierr>>>>

\* an entry of a capability set that is not implemented
Absent == "NULL"

\* the outcome of a call: the operation, its arguments, the calls it made
\* to the backend library with their results and to pfs_error and pfs_free
\* with their arguments, what it
\* returned; n counts the calls made so far
Call(op, arg, log, ret) ==
    [op |-> op, arg |-> arg, log |-> log, ret |-> ret, n |-> call.n + 1]

NoCall == [op |-> "none", arg |-> <<>>, log |-> <<>>, ret |-> 0, n |-> 0]

\* one more call may be made
MayCall == call.n < MaxCalls

(***************************************************************************)
(* The flash adapter, pfs_ffs.c, over the littlefs library.  The library   *)
(* is the environment: a call returns 0 or more on success and a negative  *)
(* code on failure.                                                        *)
(***************************************************************************)
\* LFS_ERR_IO, LFS_ERR_CORRUPT, LFS_ERR_NOENT
LfsErrors == {-5, -84, -2}

\* lfs_mount: only a formatted device mounts, and it may fail with an
\* input/output error
MountResults(fl) == IF fl THEN {0, -5} ELSE {-84}

\* lfs_format
FormatResults == {0, -5}

\* results of the calls that return 0 or an error
StatusResults == {0} \cup LfsErrors

\* results of the calls that return a count or a position, or an error
CountResults == {0, 1} \cup LfsErrors

\* the path names tried
Paths == {"f", "d"}

\* info.type as lfs_stat reports it
LFS_TYPE_REG == 1
LFS_TYPE_DIR == 2

\* an entry of the filesystem: a regular file of size bytes, or a directory
\* that holds kids entries
Reg(size) == [type |-> LFS_TYPE_REG, size |-> size, kids |-> 0]

Dir(kids) == [type |-> LFS_TYPE_DIR, size |-> 0, kids |-> kids]

\* the filesystem lfs_format leaves
NoFiles == [q \in {} |-> Reg(0)]

\* the filesystems a formatted flash holds at the start
Stored == {NoFiles, [q \in Paths |-> IF q = "f" THEN Reg(MaxSize) ELSE Dir(1)]}

Without(t, p) == [q \in DOMAIN t \ {p} |-> t[q]]

With(t, p, e) == [q \in DOMAIN t \cup {p} |-> IF q = p THEN e ELSE t[q]]

\* what a library call returns and the filesystem it leaves
Outcome(r, t) == [r |-> r, tree |-> t]

\* any library call may fail with LFS_ERR_IO and change nothing
IoError(t) == Outcome(-5, t)

\* lfs_remove (path): removes a file or an empty directory; LFS_ERR_NOENT
\* when there is no such entry, LFS_ERR_NOTEMPTY for a directory with entries
lfs_remove(t, p) ==
    IF p \notin DOMAIN t THEN Outcome(-2, t)
    ELSE IF t[p].type = LFS_TYPE_DIR /\ t[p].kids > 0 THEN Outcome(-39, t)
    ELSE Outcome(0, Without(t, p))

\* lfs_mkdir (path): LFS_ERR_EXIST when the entry exists
lfs_mkdir(t, p) ==
    IF p \in DOMAIN t THEN Outcome(-17, t) ELSE Outcome(0, With(t, p, Dir(0)))

\* lfs_file_open (path, flags), creat: LFS_O_CREAT is set; LFS_ERR_ISDIR for
\* a directory, LFS_ERR_NOENT for a missing file that is not to be created
lfs_file_open(t, p, creat) ==
    IF p \in DOMAIN t
    THEN IF t[p].type = LFS_TYPE_DIR THEN Outcome(-21, t) ELSE Outcome(0, t)
    ELSE IF creat THEN Outcome(0, With(t, p, Reg(0)))
    ELSE Outcome(-2, t)

\* lfs_rename (old, new): new is replaced when it is of the same type as old
\* and, being a directory, is empty
lfs_rename(t, old, new) ==
    IF old \notin DOMAIN t THEN Outcome(-2, t)
    ELSE IF new \notin DOMAIN t THEN Outcome(0, With(Without(t, old), new, t[old]))
    ELSE IF t[new].type = LFS_TYPE_DIR /\ t[old].type # LFS_TYPE_DIR THEN Outcome(-21, t)
    ELSE IF t[new].type # LFS_TYPE_DIR /\ t[old].type = LFS_TYPE_DIR THEN Outcome(-20, t)
    ELSE IF t[new].type = LFS_TYPE_DIR /\ t[new].kids > 0 THEN Outcome(-39, t)
    ELSE Outcome(0, With(Without(t, old), new, t[old]))

\* lfs_stat (path, &info): the result and what info holds after it; the
\* library sets info.size for regular files only, so for a directory it is
\* whatever the uninitialised local held
lfs_stat(t, p) ==
    IF p \notin DOMAIN t THEN {[r |-> -2, type |-> 0, size |-> 0]}
    ELSE IF t[p].type = LFS_TYPE_REG
    THEN {[r |-> 0, type |-> LFS_TYPE_REG, size |-> t[p].size]}
    ELSE {[r |-> 0, type |-> LFS_TYPE_DIR, size |-> s] : s \in 0..MaxSize}

\* lfs_file_close writes the size of the file back: the filesystems it may
\* leave
Resized(t) ==
    {t} \cup {With(t, p, Reg(s)) :
                p \in {q \in DOMAIN t : t[q].type = LFS_TYPE_REG}, s \in 0..MaxSize}

\* a struct stat: the fields ffs_stat sets, and st_rest for all the others
Stat(size, blksize, blocks, nlink, md, rest) ==
    [st_size |-> size, st_blksize |-> blksize, st_blocks |-> blocks,
     st_nlink |-> nlink, st_mode |-> md, st_rest |-> rest]

\* what the caller's buffer holds before the first call
StatJunk == Stat(-1, -1, -1, -1, {"S_IFCHR"}, -1)

\* a file capability set with the adapter's ffs_isatty wired in
ffs_v_file_IsattyWired ==
    [close |-> "ffs_close", read |-> "ffs_read", write |-> "ffs_write",
     lseek |-> "ffs_lseek", fstat |-> "ffs_fstat", isatty |-> "ffs_isatty",
     ioctl |-> Absent]

\* lines 48-57
ffs_v_file ==
    [close |-> "ffs_close", read |-> "ffs_read", write |-> "ffs_write",
     lseek |-> "ffs_lseek", fstat |-> "ffs_fstat", isatty |-> Absent,
     ioctl |-> Absent]

\* a struct ffs_pfs on the heap
FfsInst == [entry |-> "ffs_v_pfs"]

\* pfs_free (p), as an entry of a call's log
Freed == <<<<"pfs_free", 1>>>>

\* a construction that formats without looking at the first mount
MountLog_AlwaysFormat(r1, rf, r2) ==
    <<<<"lfs_mount", r1>>, <<"lfs_format", rf>>>>
        \o (IF rf = 0 THEN <<<<"lfs_mount", r2>>>> ELSE <<>>)

\* the library calls of pfs_ffs_create, lines 253-258, with the results
\* r1 (mount), rf (format) and r2 (second mount): mount, then format only
\* when the mount failed, then mount again only when the format succeeded
MountLog(r1, rf, r2) ==
    <<<<"lfs_mount", r1>>>> \o
        (IF r1 < 0
         THEN <<<<"lfs_format", rf>>>>
                \o (IF rf = 0 THEN <<<<"lfs_mount", r2>>>> ELSE <<>>)
         ELSE <<>>)

\* the value of r at line 259: the result of the last library call made
LastResult(log) == log[Len(log)][2]

\* whether the flash is mountable after the calls of log
FlashAfter(fl, log) ==
    IF Len(log) >= 2 THEN log[2][2] = 0 ELSE fl

\* the entries of the flash after the calls of log: lfs_format leaves none
TreeAfter(tr, log) ==
    IF Len(log) >= 2 /\ log[2][2] = 0 THEN NoFiles ELSE tr

\* pfs_ffs_create (cfg)
FfsCreate ==
    /\ MayCall
    /\ \/ \* line 250: pfs_malloc failed
          /\ call' = Call("pfs_ffs_create", <<>>, <<>>, NULL)
          /\ UNCHANGED <<fheap, flash, tree>>
       \/ \E r1 \in MountResults(flash), rf \in FormatResults :
            \E r2 \in MountResults(rf = 0) :
              LET log == MountLog(r1, rf, r2)
                  ok == LastResult(log) >= 0
              IN /\ fheap' = IF ok THEN Append(fheap, FfsInst) ELSE fheap
                 /\ flash' = FlashAfter(flash, log)
                 /\ tree' = TreeAfter(tree, log)
                 /\ call' = Call("pfs_ffs_create", <<>>,
                                 IF ok THEN log ELSE log \o Freed,
                                 IF ok THEN Len(fheap) + 1 ELSE NULL)
    /\ UNCHANGED <<uart_dev, dheap, uhw, gpio, files, buf, errno, iStat, lba_base,
                   mbr, pvars, uvars>>

\* a handle on the heap, bound to its capability set
Handle(entry, pfs) == [entry |-> entry, pfs |-> pfs]

\* the live handles bound to the capability set entry
Live(entry) == {h \in 1..Len(files) : files[h].entry = entry}

\* some filesystem returned by pfs_ffs_create is mounted
Mounts == 1..Len(fheap)

Mounted == Mounts # {}

\* the rest of the state the flash adapter never touches
FfsFrame ==
    UNCHANGED <<uart_dev, dheap, uhw, gpio, flash, fheap, iStat, lba_base, mbr,
                pvars, uvars>>

\* ffs_open (pfs, fn, oflag); creat: O_CREAT is set in oflag
FfsOpen ==
    /\ MayCall
    /\ \E pfs \in Mounts :
       \/ \* lines 94-98: pfs_malloc failed
             /\ errno' = pfs_error(errno, ENOMEM).errno
             /\ call' = Call("ffs_open", <<>>, Err(ENOMEM), NULL)
             /\ files' = files
             /\ tree' = tree
          \/ \E fn \in Paths, creat \in BOOLEAN :
              \E o \in {IoError(tree), lfs_file_open(tree, fn, creat)} :
               /\ tree' = o.tree
               /\ IF o.r >= 0
                  THEN /\ files' = Append(files, Handle("ffs_v_file", pfs))
                       /\ errno' = errno
                       /\ call' = Call("ffs_open", <<fn>>, <<<<"lfs_file_open", o.r>>>>,
                                       Len(files) + 1)
                  ELSE \* lines 113-115: pfs_error (r); pfs_free (fd); return NULL;
                       /\ files' = files
                       /\ errno' = pfs_error(errno, o.r).errno
                       /\ call' = Call("ffs_open", <<fn>>,
                                       <<<<"lfs_file_open", o.r>>>> \o Err(o.r) \o Freed,
                                       NULL)
    /\ buf' = buf
    /\ FfsFrame

\* the operations of the shape  return pfs_error (lfs_xxx (...));  but for
\* ffs_delete and ffs_rmdir, which follow
PassThrough ==
    [ffs_close |-> "lfs_file_close", ffs_rename |-> "lfs_rename",
     ffs_mkdir |-> "lfs_mkdir", ffs_closedir |-> "lfs_dir_close"]

\* what an operation is called on: a file handle, a directory handle or
\* the mounted filesystem
HasTarget(op) ==
    IF op \in {"ffs_close", "ffs_read", "ffs_write", "ffs_lseek", "ffs_fstat"}
    THEN Live("ffs_v_file") # {}
    ELSE IF op \in {"ffs_closedir", "ffs_readdir"}
    THEN Live("ffs_v_dir") # {}
    ELSE Mounted

\* the arguments tried and what the library call of the operation does with
\* them
Passed(op) ==
    CASE op = "ffs_mkdir" ->
           UNION {{[arg |-> <<q>>, o |-> o] : o \in {IoError(tree), lfs_mkdir(tree, q)}} :
                    q \in Paths}
      [] op = "ffs_rename" ->
           {[arg |-> <<"f", "d">>, o |-> o] :
               o \in {IoError(tree), lfs_rename(tree, "f", "d")}}
           \cup {[arg |-> <<"d", "f">>, o |-> o] :
               o \in {IoError(tree), lfs_rename(tree, "d", "f")}}
      [] op = "ffs_close" ->
           {[arg |-> <<>>, o |-> Outcome(r, tree)] : r \in StatusResults}
           \cup {[arg |-> <<>>, o |-> Outcome(0, tr)] : tr \in Resized(tree)}
      [] OTHER ->
           {[arg |-> <<>>, o |-> Outcome(r, tree)] : r \in StatusResults}

\* ffs_close, ffs_rename, ffs_mkdir, ffs_closedir
FfsPassThrough(op) ==
    /\ MayCall
    /\ HasTarget(op)
    /\ \E x \in Passed(op) :
         /\ errno' = pfs_error(errno, x.o.r).errno
         /\ tree' = x.o.tree
         /\ call' = Call(op, x.arg, <<<<PassThrough[op], x.o.r>>>> \o Err(x.o.r),
                         pfs_error(errno, x.o.r).ret)
    /\ files' = files
    /\ buf' = buf
    /\ FfsFrame

\* what an operation on a path leaves: the value returned, the last error,
\* the filesystem, and the calls made
Done(ret, e, tr, log) == [ret |-> ret, errno |-> e, tree |-> tr, log |-> log]

\* ffs_delete (pfs, name), lines 189-193; e: the last error before the call,
\* io: the library fails with an input/output error
ffs_delete(t, e, name, io) ==
    LET o == IF io THEN IoError(t) ELSE lfs_remove(t, name)
    IN Done(pfs_error(e, o.r).ret, pfs_error(e, o.r).errno, o.tree,
            <<<<"lfs_remove", o.r>>>> \o Err(o.r))

\* an ffs_rmdir over a primitive that, like POSIX rmdir, refuses what is not
\* a directory (LFS_ERR_NOTDIR)
ffs_rmdir_DirectoriesOnly(t, e, pathname, io) ==
    LET o == IF io THEN IoError(t)
             ELSE IF pathname \in DOMAIN t /\ t[pathname].type # LFS_TYPE_DIR
             THEN Outcome(-20, t)
             ELSE lfs_remove(t, pathname)
    IN Done(pfs_error(e, o.r).ret, pfs_error(e, o.r).errno, o.tree,
            <<<<"lfs_remove", o.r>>>> \o Err(o.r))

\* ffs_rmdir (pfs, pathname), lines 201-205
ffs_rmdir(t, e, pathname, io) ==
    LET o == IF io THEN IoError(t) ELSE lfs_remove(t, pathname)
    IN Done(pfs_error(e, o.r).ret, pfs_error(e, o.r).errno, o.tree,
            <<<<"lfs_remove", o.r>>>> \o Err(o.r))

\* a call of ffs_delete or of ffs_rmdir
FfsRemove(op) ==
    /\ MayCall
    /\ Mounted
    /\ \E name \in Paths, io \in BOOLEAN :
         LET x == IF op = "ffs_delete" THEN ffs_delete(tree, errno, name, io)
                  ELSE ffs_rmdir(tree, errno, name, io)
         IN /\ errno' = x.errno
            /\ tree' = x.tree
            /\ call' = Call(op, <<name>>, x.log, x.ret)
    /\ files' = files
    /\ buf' = buf
    /\ FfsFrame

\* the operations of the shape  return ( r >= 0 ) ? r : pfs_error (r);
Counted ==
    [ffs_read |-> "lfs_file_read", ffs_write |-> "lfs_file_write",
     ffs_lseek |-> "lfs_file_seek"]

\* ffs_read, ffs_write, ffs_lseek
FfsCounted(op) ==
    /\ MayCall
    /\ HasTarget(op)
    /\ \E r \in CountResults :
         /\ errno' = IF r >= 0 THEN errno ELSE pfs_error(errno, r).errno
         /\ call' = Call(op, <<>>,
                         <<<<Counted[op], r>>>> \o (IF r >= 0 THEN <<>> ELSE Err(r)),
                         IF r >= 0 THEN r ELSE pfs_error(errno, r).ret)
    /\ files' = files
    /\ UNCHANGED <<tree, buf>>
    /\ FfsFrame

\* S_IRWXU | S_IRWXG | S_IRWXO
AllAccess == {"S_IRWXU", "S_IRWXG", "S_IRWXO"}

\* an ffs_stat that clears the buffer before it calls the library
ffs_stat_ClearsFirst(b, e, info) ==
    IF info.r < 0
    THEN [ret |-> pfs_error(e, info.r).ret, errno |-> pfs_error(e, info.r).errno,
          buf |-> Stat(0, 0, 0, 0, {}, 0)]
    ELSE [ret |-> 0, errno |-> e,
          buf |-> Stat(info.size, 1, info.size, 1,
                       AllAccess \cup {IF info.type = LFS_TYPE_DIR
                                       THEN "S_IFDIR" ELSE "S_IFREG"}, 0)]

\* ffs_stat (pfs, name, buf), lines 165-180, after lfs_stat has returned
\* info.r and filled info; b: the caller's buffer, e: the last error
ffs_stat(b, e, info) ==
    IF info.r < 0
    THEN [ret |-> pfs_error(e, info.r).ret, errno |-> pfs_error(e, info.r).errno,
          buf |-> b]
    ELSE [ret |-> 0, errno |-> e,
          buf |-> Stat(info.size, 1, info.size, 1,
                       AllAccess \cup {IF info.type = LFS_TYPE_DIR
                                       THEN "S_IFDIR" ELSE "S_IFREG"}, 0)]

\* a call of ffs_stat, or of ffs_fstat, which calls it with the name the
\* handle carries
FfsStat(op) ==
    /\ MayCall
    /\ HasTarget(op)
    /\ \E name \in Paths :
        \E info \in lfs_stat(tree, name) \cup {[r |-> -5, type |-> 0, size |-> 0]} :
         LET x == ffs_stat(buf, errno, info)
         IN /\ errno' = x.errno
            /\ buf' = x.buf
            /\ call' = Call(op, <<name>>,
                            <<<<"lfs_stat", info.r>>>> \o
                              (IF info.r < 0 THEN Err(info.r)
                               ELSE <<<<"info.type", info.type>>,
                                      <<"info.size", info.size>>>>),
                            x.ret)
    /\ files' = files
    /\ tree' = tree
    /\ FfsFrame

\* ffs_opendir (pfs, name)
FfsOpendir ==
    /\ MayCall
    /\ \E pfs \in Mounts :
       \/ \* lines 211-215: pfs_malloc failed
             /\ errno' = pfs_error(errno, ENOMEM).errno
             /\ call' = Call("ffs_opendir", <<>>, Err(ENOMEM), NULL)
             /\ files' = files
          \/ \E r \in StatusResults :
               /\ errno' = errno
               /\ IF r >= 0
                  THEN /\ files' = Append(files, Handle("ffs_v_dir", pfs))
                       /\ call' = Call("ffs_opendir", <<>>, <<<<"lfs_dir_open", r>>>>, Len(files) + 1)
                  ELSE \* lines 219-220: pfs_free (dd); return NULL;
                       /\ files' = files
                       /\ call' = Call("ffs_opendir", <<>>,
                                       <<<<"lfs_dir_open", r>>>> \o Freed, NULL)
    /\ UNCHANGED <<tree, buf>>
    /\ FfsFrame

\* ffs_readdir (dirp): NULL on an error and at the end of the directory,
\* else &dd->de (returned here as 1)
FfsReaddir ==
    /\ MayCall
    /\ HasTarget("ffs_readdir")
    /\ \E r \in CountResults :
         /\ errno' = IF r < 0 THEN pfs_error(errno, r).errno ELSE errno
         /\ call' = Call("ffs_readdir", <<>>,
                         <<<<"lfs_dir_read", r>>>> \o (IF r < 0 THEN Err(r) ELSE <<>>),
                         IF r <= 0 THEN NULL ELSE 1)
    /\ files' = files
    /\ UNCHANGED <<tree, buf>>
    /\ FfsFrame

\* ffs_chmod (pfs, pathname, mode)
FfsChmod ==
    /\ MayCall
    /\ Mounted
    /\ errno' = pfs_error(errno, EINVAL).errno
    /\ call' = Call("ffs_chmod", <<>>, Err(EINVAL), pfs_error(errno, EINVAL).ret)
    /\ files' = files
    /\ UNCHANGED <<tree, buf>>
    /\ FfsFrame

FfsNext ==
    \/ FfsCreate
    \/ FfsOpen
    \/ \E op \in DOMAIN PassThrough : FfsPassThrough(op)
    \/ \E op \in {"ffs_delete", "ffs_rmdir"} : FfsRemove(op)
    \/ \E op \in DOMAIN Counted : FfsCounted(op)
    \/ \E op \in {"ffs_stat", "ffs_fstat"} : FfsStat(op)
    \/ FfsOpendir
    \/ FfsReaddir
    \/ FfsChmod

(***************************************************************************)
(* Construction of the UART device: pfs_dev_uart_create, uopen, uclose,    *)
(* uart_open, and uart_ioctl on the device they build.  Here a device is   *)
(* a struct on the heap with its indices; the receive interrupt runs as    *)
(* one step.                                                               *)
(***************************************************************************)
uart_v_file ==
    [close |-> Absent, read |-> "uart_read", write |-> "uart_write",
     lseek |-> Absent, fstat |-> Absent, isatty |-> Absent,
     ioctl |-> "uart_ioctl"]

\* the uid arguments tried; NUM_UARTS is 2
Uids == {-1, 0, 1, 2}

\* SERIAL_CONFIG
Config(baud, dbits, sbits, parity, tx, rx, cts, rtsp) ==
    [baud |-> baud, data |-> dbits, stop |-> sbits, parity |-> parity,
     tx |-> tx, rx |-> rx, cts |-> cts, rts |-> rtsp]

\* the configurations tried: good ones for either UART, with and without
\* flow control pins, and one bad field each
Configs ==
    { Config(9600, 8, 1, "UART_PARITY_NONE", 0, 1, -1, -1),
      Config(9600, 8, 1, "UART_PARITY_NONE", 4, 5, 6, 7),
      Config(9600, 7, 2, "UART_PARITY_EVEN", -1, -1, -1, -1),
      Config(0, 8, 1, "UART_PARITY_NONE", -1, -1, -1, -1),
      Config(9600, 8, 1, "UART_PARITY_NONE", 0, 2, -1, -1),
      Config(19200, 9, 1, "UART_PARITY_NONE", -1, -1, -1, -1),
      Config(9600, 8, 3, "UART_PARITY_NONE", -1, -1, -1, -1),
      Config(9600, 8, 1, "mark", -1, -1, -1, -1) }

\* the peripheral before uart_init
HwOff == [on |-> FALSE, baud |-> 0, fmt |-> <<0, 0, "UART_PARITY_NONE">>,
          flow |-> FALSE, irq |-> FALSE]

\* a struct pfs_dev_uart as pfs_dev_uart_create and uopen fill it
Dev == [mode |-> DefaultMode, tout |-> 0, rptr |-> 0, wptr |-> 0]

\* the heap h with the new struct d at the pointer p
Alloc(h, p, d) == [q \in DOMAIN h \cup {p} |-> IF q = p THEN d ELSE h[q]]

\* uart_pin_valid (uid, func, pin)
uart_pin_valid(uid, func, pin) ==
    IF pin < 0 \/ pin > 29 THEN FALSE
    ELSE IF uid = 0 THEN (pin - func) \in {0, 12, 16, 28}
    ELSE IF uid = 1 THEN (pin - func) \in {4, 8, 20, 24}
    ELSE FALSE

\* the range checks of lines 146-149 and 218-221
BadFormat(sc) ==
    \/ sc.data < 5 \/ sc.data > 8
    \/ sc.stop < 1 \/ sc.stop > 2
    \/ sc.parity \notin {"UART_PARITY_NONE", "UART_PARITY_EVEN", "UART_PARITY_ODD"}

\* gpio_set_function (pin, GPIO_FUNC_UART) when the pin is requested
Commit(g, pin) == IF pin >= 0 THEN g \cup {pin} ELSE g

\* what uopen returns: "false", or "end" when control runs off its end
\* without a return statement; the state of the peripheral; the pins
Opened(ret, hw, g) == [ret |-> ret, hw |-> hw, gpio |-> g]

\* uopen (uid, sc), ui the result of uart_init: each pin is checked and
\* switched in turn, then the interrupt is installed with RTS and RXIM set
\* (irq), then the format is checked
uopen(uid, sc, ui, hw, g) ==
    LET h1 == [hw EXCEPT !.on = TRUE, !.baud = ui,
                         !.fmt = <<8, 1, "UART_PARITY_NONE">>]
        g1 == Commit(g, sc.tx)
        g2 == Commit(g1, sc.rx)
        g3 == Commit(g2, sc.cts)
        g4 == Commit(g3, sc.rts)
        h2 == [h1 EXCEPT !.flow = (sc.cts >= 0)]
        h3 == [h2 EXCEPT !.irq = TRUE]
    IN  IF ui = 0 THEN Opened("false", hw, g)
        ELSE IF sc.tx >= 0 /\ ~uart_pin_valid(uid, 0, sc.tx) THEN Opened("false", h1, g)
        ELSE IF sc.rx >= 0 /\ ~uart_pin_valid(uid, 1, sc.rx) THEN Opened("false", h1, g1)
        ELSE IF sc.cts >= 0 /\ ~uart_pin_valid(uid, 2, sc.cts) THEN Opened("false", h1, g2)
        ELSE IF sc.rts >= 0 /\ ~uart_pin_valid(uid, 3, sc.rts) THEN Opened("false", h2, g3)
        ELSE IF BadFormat(sc) THEN Opened("false", h3, g4)
        ELSE Opened("end", [h3 EXCEPT !.fmt = <<sc.data, sc.stop, sc.parity>>], g4)

\* uclose (uid): uart_deinit
uclose(hw) == [hw EXCEPT !.on = FALSE]

\* the rest of the state the UART construction never touches
DevFrame ==
    UNCHANGED <<flash, tree, buf, fheap, iStat, lba_base, mbr, pvars, uvars>>

\* pfs_dev_uart_create (uid, sc).  mem: pfs_malloc succeeds; ui: the result
\* of uart_init; b: the value the caller finds when uopen ran off its end
DevCreate ==
    /\ MayCall
    /\ \E uid \in Uids, sc \in Configs, mem \in BOOLEAN, b \in BOOLEAN :
        \E ui \in {0, sc.baud} :
         IF uid < 0 \/ uid > 1
         THEN /\ call' = Call("pfs_dev_uart_create", <<uid, sc>>, <<>>, NULL)
              /\ UNCHANGED <<uart_dev, dheap, uhw, gpio>>
         ELSE LET r == uopen(uid, sc, ui, uhw[uid], gpio)
                  log == <<<<"uopen", IF r.ret = "false" THEN 0 ELSE 1>>>>
                  p == uid + 1
              IN IF uart_dev[uid] # NULL
                 THEN \* lines 255-259: the result of uopen is not looked at
                      /\ dheap' = [dheap EXCEPT ![uart_dev[uid]].rptr = 0,
                                                ![uart_dev[uid]].wptr = 0]
                      /\ uhw' = [uhw EXCEPT ![uid] = r.hw]
                      /\ gpio' = r.gpio
                      /\ uart_dev' = uart_dev
                      /\ call' = Call("pfs_dev_uart_create", <<uid, sc>>, log,
                                      uart_dev[uid])
                 ELSE IF ~mem
                 THEN /\ call' = Call("pfs_dev_uart_create", <<uid, sc>>, <<>>, NULL)
                      /\ UNCHANGED <<uart_dev, dheap, uhw, gpio>>
                 ELSE /\ gpio' = r.gpio
                      /\ IF r.ret = "end" /\ b
                         THEN /\ dheap' = Alloc(dheap, p, Dev)
                              /\ uart_dev' = [uart_dev EXCEPT ![uid] = p]
                              /\ uhw' = [uhw EXCEPT ![uid] = r.hw]
                              /\ call' = Call("pfs_dev_uart_create", <<uid, sc>>, log, p)
                         ELSE \* lines 266-269: uclose; pfs_free; slot = NULL
                              /\ dheap' = dheap
                              /\ uart_dev' = [uart_dev EXCEPT ![uid] = NULL]
                              /\ uhw' = [uhw EXCEPT ![uid] = uclose(r.hw)]
                              /\ call' = Call("pfs_dev_uart_create", <<uid, sc>>,
                                              log \o Freed, NULL)
    /\ UNCHANGED <<files, errno>>
    /\ DevFrame

\* the uid whose slot holds the device pud
UidOf(pud) == CHOOSE u \in {0, 1} : uart_dev[u] = pud

\* irq_uart0 / irq_uart1 with one byte in the FIFO: uart_input stores it
\* unless the buffer is full
DevInput(uid) ==
    /\ uart_dev[uid] # NULL
    /\ uhw[uid].on /\ uhw[uid].irq
    /\ dheap[uart_dev[uid]].wptr < MaxRecv
    /\ LET pud == uart_dev[uid]
           wnd == Mask(dheap[pud].rptr - 1)
       IN dheap' = [dheap EXCEPT ![pud].wptr =
                        IF @ # wnd THEN Mask(@ + 1) ELSE @]
    /\ uhw' = uhw
    /\ UNCHANGED <<uart_dev, gpio, files, errno, call>>
    /\ DevFrame

\* uart_open (dev, name, oflags)
DevOpen ==
    /\ MayCall
    /\ \E uid \in {0, 1} :
         /\ uart_dev[uid] # NULL
         /\ \/ \* lines 241-245: pfs_malloc failed
               /\ errno' = pfs_error(errno, ENOMEM).errno
               /\ call' = Call("uart_open", <<uid>>, Err(ENOMEM), NULL)
               /\ files' = files
            \/ /\ files' = Append(files, Handle("uart_v_file", uart_dev[uid]))
               /\ errno' = errno
               /\ call' = Call("uart_open", <<uid>>, <<>>, Len(files) + 1)
    /\ UNCHANGED <<uart_dev, dheap, uhw, gpio>>
    /\ DevFrame

\* the modes and the request codes tried
DevModes == {DefaultMode, Mode(TRUE, FALSE, FALSE, FALSE, "NUL")}

Requests == {"IOC_RQ_MODE", "IOC_RQ_PURGE", "IOC_RQ_COUNT", "IOC_RQ_TOUT",
             "IOC_RQ_SCFG", "unknown"}

\* what argp points to, by request
Args(rq) ==
    CASE rq = "IOC_RQ_MODE" -> DevModes
      [] rq = "IOC_RQ_TOUT" -> Touts
      [] rq = "IOC_RQ_SCFG" -> Configs
      [] OTHER -> {0}

\* a set-serial-config that changes baud rate and format before it has
\* checked all the fields
ScfgApply_BeforeChecks(hw, sc) ==
    [hw EXCEPT !.baud = IF sc.baud # 0 THEN sc.baud ELSE @,
               !.fmt = IF sc.data >= 5 /\ sc.data <= 8
                       THEN <<sc.data, sc.stop, sc.parity>> ELSE @]

\* lines 146-151: the peripheral after IOC_RQ_SCFG
ScfgApply(hw, sc) ==
    IF BadFormat(sc) THEN hw
    ELSE [hw EXCEPT !.baud = IF sc.baud # 0 THEN sc.baud ELSE @,
                    !.fmt = <<sc.data, sc.stop, sc.parity>>]

\* uart_ioctl (fd, request, argp) on the handle h
DevIoctl(h, rq) ==
    /\ MayCall
    /\ h \in Live("uart_v_file")
    /\ \E a \in Args(rq) :
         LET pud == files[h].pfs
             uid == UidOf(pud)
             bad == rq = "unknown" \/ (rq = "IOC_RQ_SCFG" /\ BadFormat(a))
             n == Mask(dheap[pud].wptr - dheap[pud].rptr)
         IN /\ dheap' =
                 CASE rq = "IOC_RQ_MODE" -> [dheap EXCEPT ![pud].mode = a]
                   [] rq = "IOC_RQ_TOUT" -> [dheap EXCEPT ![pud].tout = a]
                   [] rq = "IOC_RQ_PURGE" ->
                        [dheap EXCEPT ![pud].rptr = 0, ![pud].wptr = 0]
                   [] OTHER -> dheap
            /\ uhw' = IF rq = "IOC_RQ_SCFG"
                      THEN [uhw EXCEPT ![uid] = ScfgApply(uhw[uid], a)]
                      ELSE uhw
            /\ errno' = IF bad THEN pfs_error(errno, EINVAL).errno ELSE errno
            /\ call' = Call("uart_ioctl", <<h, rq, a>>,
                            IF rq = "IOC_RQ_COUNT" THEN <<<<"count", n>>>>
                            ELSE IF bad THEN Err(EINVAL) ELSE <<>>,
                            IF bad THEN pfs_error(errno, EINVAL).ret ELSE 0)
    /\ UNCHANGED <<uart_dev, gpio, files>>
    /\ DevFrame

(***************************************************************************)
(* Dispatch through a file handle's capability set, as the base layer      *)
(* does it: an absent entry fails with NotSupported and touches nothing.   *)
(* Of the entries that are present, ffs_isatty is the one function of the  *)
(* adapters that has no action of its own above.                           *)
(***************************************************************************)
Entries == {"close", "read", "write", "lseek", "fstat", "isatty", "ioctl"}

\* the capability set a handle is bound to
VTable(h) == IF files[h].entry = "uart_v_file" THEN uart_v_file ELSE ffs_v_file

Dispatch(h, e) ==
    /\ MayCall
    /\ h \in Live("uart_v_file") \cup Live("ffs_v_file")
    /\ VTable(h)[e] \in {Absent, "ffs_isatty"}
    /\ IF VTable(h)[e] = Absent
       THEN /\ errno' = pfs_error(errno, ENOTSUP).errno
            /\ call' = Call(e, <<h>>, Err(ENOTSUP), pfs_error(errno, ENOTSUP).ret)
       ELSE \* ffs_isatty, lines 160-163: return 0;
            /\ errno' = errno
            /\ call' = Call(e, <<h>>, <<>>, 0)
    /\ UNCHANGED <<uart_dev, dheap, uhw, gpio, files>>
    /\ DevFrame

DevNext ==
    \/ DevCreate
    \/ \E uid \in {0, 1} : DevInput(uid)
    \/ DevOpen
    \/ \E h \in 1..Len(files), rq \in Requests : DevIoctl(h, rq)
    \/ \E h \in 1..Len(files), e \in Entries : Dispatch(h, e)

\* no adapter has been constructed yet; the flash may hold a filesystem
BkInit(F, T) ==
    /\ uart_dev = [u \in {0, 1} |-> NULL]
    /\ dheap = [q \in {} |-> Dev]
    /\ uhw = [u \in {0, 1} |-> HwOff]
    /\ gpio = {}
    /\ files = <<>>
    /\ flash \in F
    /\ tree \in T
    /\ buf = StatJunk
    /\ fheap = <<>>
    /\ errno = 0
    /\ call = NoCall

BackendNext == FfsNext \/ DevNext

(***************************************************************************)
(* The SD card block shim, ff_disk.c (the USE_SPI build), over the SPI      *)
(* driver sd_spi_init / sd_spi_read / sd_spi_write, which is the            *)
(* environment: each of its calls succeeds or fails.  A call's log lists    *)
(* the driver calls made, each with the physical sector it was given.       *)
(***************************************************************************)
STA_NOINIT == 1

RES_OK == 0
RES_ERROR == 1
RES_NOTRDY == 3
RES_PARERR == 4

\* LBA_t and uint32_t arithmetic, on LbaBits bits
Lba(x) == x % (2 ^ LbaBits)

\* the highest sector number
LastLba == 2 ^ LbaBits - 1

\* one entry of the partition table: the type byte at offset 4 and the
\* start sector at offsets 8..11
Part(type, lba) == [type |-> type, lba |-> lba]

\* sector 0: whether bytes 0x1FE, 0x1FF are 0x55, 0xAA, and the four entries
\* from offset 0x1BE
Sector0(sig, parts) == [sig |-> sig, parts |-> parts]

\* a card without boot signature, whose bytes happen to look like an entry
NoTable == Sector0(FALSE, <<Part(12, 2), Part(0, 0), Part(0, 0), Part(0, 0)>>)

\* the cards tried
Cards ==
    { NoTable,
      Sector0(TRUE, <<Part(131, 1), Part(12, 2), Part(12, 3), Part(0, 0)>>),
      Sector0(TRUE, <<Part(131, 1), Part(0, 0), Part(0, 0), Part(0, 0)>>),
      Sector0(TRUE, <<Part(12, 0), Part(12, 2), Part(0, 0), Part(0, 0)>>),
      Sector0(TRUE, <<Part(12, LastLba), Part(0, 0), Part(0, 0), Part(0, 0)>>) }

\* the driver calls of the loop of lines 86-102 (fn sd_spi_read) and of lines
\* 127-140 (fn sd_spi_write) on cnt (count) sectors from first; fail: which of the
\* calls fails, 0 for none
Transfer(fn, first, cnt, fail) ==
    [i \in 1..(IF fail = 0 THEN cnt ELSE fail) |-> <<fn, Lba(first + i - 1)>>]

\* what a call of the shim returns and the driver calls it made
Xfer(res, log) == [res |-> res, log |-> log]

\* disk_read (pdrv, buff, sector, count), lines 63-104
disk_read(st, base, buffNull, sector, cnt, fail) ==
    IF st = STA_NOINIT THEN Xfer(RES_NOTRDY, <<>>)
    ELSE IF buffNull \/ cnt = 0 THEN Xfer(RES_PARERR, <<>>)
    ELSE Xfer(IF fail = 0 THEN RES_OK ELSE RES_ERROR,
              Transfer("sd_spi_read", Lba(sector + base), cnt, fail))

\* disk_write (pdrv, buff, sector, count), lines 106-142
disk_write(st, base, buffNull, sector, cnt, fail) ==
    IF st = STA_NOINIT THEN Xfer(RES_NOTRDY, <<>>)
    ELSE IF buffNull \/ cnt = 0 THEN Xfer(RES_PARERR, <<>>)
    ELSE Xfer(IF fail = 0 THEN RES_OK ELSE RES_ERROR,
              Transfer("sd_spi_write", Lba(sector + base), cnt, fail))

\* the loop of lines 160-175 from entry iPar on, lba_base being base
RECURSIVE ScanParts(_, _, _)
ScanParts(parts, iPar, base) ==
    IF iPar > 4 THEN base
    ELSE ScanParts(parts, iPar + 1,
                   IF parts[iPar].type = 12 /\ base = 0
                   THEN Lba(parts[iPar].lba) ELSE base)

\* lba_base after lines 152-176, sector 0 having been read into mbr
BaseOf(sec0) == IF sec0.sig THEN ScanParts(sec0.parts, 1, 0) ELSE 0

DiskFrame ==
    UNCHANGED <<uart_dev, dheap, uhw, gpio, files, flash, tree, buf, fheap, errno,
                pvars, uvars>>

\* disk_initialize (pdrv), lines 144-201; init: sd_spi_init succeeds
DiskInitialize ==
    /\ MayCall
    /\ \E init \in BOOLEAN, fail \in {0, 1} :
         IF ~init
         THEN /\ iStat' = STA_NOINIT
              /\ lba_base' = lba_base
              /\ call' = Call("disk_initialize", <<>>, <<<<"sd_spi_init", 0>>>>,
                              STA_NOINIT)
         ELSE LET r == disk_read(0, 0, FALSE, 0, 1, fail)
              IN /\ iStat' = IF r.res = RES_OK THEN 0 ELSE STA_NOINIT
                 /\ lba_base' = IF r.res = RES_OK THEN BaseOf(mbr) ELSE 0
                 /\ call' = Call("disk_initialize", <<>>,
                                 <<<<"sd_spi_init", 1>>>> \o r.log,
                                 IF r.res = RES_OK THEN 0 ELSE STA_NOINIT)
    /\ mbr' = mbr
    /\ DiskFrame

\* the requests a caller of the shim makes: a NULL buffer or not, the first
\* logical sector, the number of sectors, and the driver call that fails
DiskArgs ==
    {<<buffNull, sector, cnt, fail>> \in
        BOOLEAN \X (0..MaxSector) \X (0..MaxCount) \X (0..MaxCount) :
            fail <= cnt}

\* a call of disk_read
DiskRead ==
    /\ MayCall
    /\ \E a \in DiskArgs :
         LET r == disk_read(iStat, lba_base, a[1], a[2], a[3], a[4])
         IN call' = Call("disk_read", <<a[2], a[3]>>, r.log, r.res)
    /\ UNCHANGED <<iStat, lba_base, mbr>>
    /\ DiskFrame

\* a call of disk_write; a write that reaches physical sector 0 may leave
\* any sector 0 there
DiskWrite ==
    /\ MayCall
    /\ \E a \in DiskArgs :
         LET r == disk_write(iStat, lba_base, a[1], a[2], a[3], a[4])
         IN /\ call' = Call("disk_write", <<a[2], a[3]>>, r.log, r.res)
            /\ IF \E i \in 1..Len(r.log) : r.log[i][2] = 0 /\ (r.res = RES_OK \/ i < Len(r.log))
               THEN mbr' \in Cards
               ELSE mbr' = mbr
    /\ UNCHANGED <<iStat, lba_base>>
    /\ DiskFrame

\* disk_status (pdrv), lines 55-61
DiskStatus ==
    /\ MayCall
    /\ call' = Call("disk_status", <<>>, <<>>, iStat)
    /\ UNCHANGED <<iStat, lba_base, mbr>>
    /\ DiskFrame

DiskInit(C) ==
    /\ iStat = STA_NOINIT
    /\ lba_base = 0
    /\ mbr \in C

DiskNext == DiskInitialize \/ DiskRead \/ DiskWrite \/ DiskStatus

(***************************************************************************)
(* The specifications.                                                     *)
(***************************************************************************)
InitPname == PnInit /\ UartInit({[i \in 0..(NDATA - 1) |-> "a"]}) /\ BkInit({TRUE}, {NoFiles}) /\ DiskInit({NoTable})

SpecPname == InitPname /\ [][PnNext]_vars

InitUart == PnIdle /\ UartInit([0..(NDATA - 1) -> Bytes]) /\ BkInit({TRUE}, {NoFiles}) /\ DiskInit({NoTable})

SpecUart == InitUart /\ [][UartNext]_vars

\* the steps of the task inside uart_read, uart_input included
ReadStep ==
    \/ UiEnter("task") \/ UiLoop("task") \/ UiCheck("task") \/ UiExit("task")
    \/ Rd85 \/ Rd92 \/ Rd98 \/ Rd100 \/ Rd100a \/ Rd100b \/ Rd110 \/ Rd113

\* the steps of the interrupt handler once it has been entered
IrqStep == UiLoop("irq") \/ UiCheck("irq") \/ UiExit("irq")

\* The task and the handler keep running, and a deadline that was set
\* passes: a read that keeps asking time_reached is answered true in the end.
UartFairness ==
    /\ WF_vars(ReadStep)
    /\ WF_vars(IrqStep)
    /\ SF_vars(Rd92 /\ expired')

\* reads and arriving bytes on a device whose mode and timeout were set
\* beforehand
ReadNext ==
    \/ HwArrive
    \/ \E c \in Ctx : UiEnter(c)
    \/ \E c \in Ctx : UiLoop(c)
    \/ \E c \in Ctx : UiCheck(c)
    \/ \E c \in Ctx : UiExit(c)
    \/ RdStart \/ Rd85 \/ Rd92 \/ Rd98 \/ Rd100 \/ Rd100a \/ Rd100b \/ Rd110 \/ Rd113

InitUartTimed ==
    PnIdle /\ UartSet(Modes, Touts, {[i \in 0..(NDATA - 1) |-> "a"]}) /\ BkInit({TRUE}, {NoFiles}) /\ DiskInit({NoTable})

SpecUartTimed == InitUartTimed /\ [][ReadNext]_vars /\ UartFairness

\* a flash that was never formatted holds no entries
InitDisk ==
    /\ PnIdle
    /\ UartInit({[i \in 0..(NDATA - 1) |-> "a"]})
    /\ BkInit({TRUE}, {NoFiles})
    /\ DiskInit(Cards)

SpecDisk == InitDisk /\ [][DiskNext]_vars

InitBackend ==
    /\ PnIdle
    /\ UartInit({[i \in 0..(NDATA - 1) |-> "a"]})
    /\ BkInit(BOOLEAN, Stored)
    /\ DiskInit({NoTable})
    /\ (flash \/ tree = NoFiles)

SpecBackend == InitBackend /\ [][BackendNext]_vars

\* the C string a buffer holds: its bytes up to the first NUL
RECURSIVE CStr(_)
CStr(b) == IF b = <<>> \/ Head(b) = NUL THEN <<>> ELSE <<Head(b)>> \o CStr(Tail(b))

(***************************************************************************)
(* Claims about pname_append (join), checked under SpecPname.  The result  *)
(* is looked at when pname_mkname has returned a buffer (ppc = "delete"):  *)
(* the list of pn1 still stands, and Out is the string written.            *)
(***************************************************************************)
Made == ppc = "delete" /\ ~nomem

\* the string pname_mkname wrote
Out == CStr(ps.bytes)

\* the segments of the list headed by pn: its nodes in order, and whether
\* a node is the root marker (its name is &rootdir)
IsRootNode(h, pe) == h[pe].str = 0
HasRoot(h, pn) == \E i \in 1..Len(List(h, pn)) : IsRootNode(h, List(h, pn)[i])

Front(l) == SubSeq(l, 1, Len(l) - 1)

\* C5 as stated: the output starts with '/' only if the resulting list
\* holds a root segment, join("rel/path", "../../x") is "x", and an empty
\* list gives "/".
C5_Original ==
    Made =>
      /\ (Out # <<>> /\ Head(Out) = "/") => (HasRoot(heap, pn1) \/ List(heap, pn1) = <<>>)
      /\ (psPath1 = <<"r","e","l","/","p","a","t","h">>
          /\ psPath2 = <<".",".","/",".",".","/","x">>) => Out = <<"x">>
      /\ List(heap, pn1) = <<>> => Out = <<"/">>

\* C5 amended: a '/' is written before every remaining segment, root marker
\* or not, so the output always starts with '/'; join("rel/path",
\* "../../x") is "/x"; a list that is empty or holds only the root marker
\* gives "/".
C5_AlwaysLeadingSlash ==
    Made =>
      /\ Out # <<>> /\ Head(Out) = "/"
      /\ (psPath1 = <<"r","e","l","/","p","a","t","h">>
          /\ psPath2 = <<".",".","/",".",".","/","x">>) => Out = <<"/","x">>
      /\ (\A i \in 1..Len(List(heap, pn1)) : IsRootNode(heap, List(heap, pn1)[i]))
           => Out = <<"/">>

\* C5 witness: join("rel/path", "../../x") has been serialized as "/x"
\* from a list without a root marker
C5_Witness ==
    /\ Made
    /\ psPath1 = <<"r","e","l","/","p","a","t","h">>
    /\ psPath2 = <<".",".","/",".",".","/","x">>
    /\ ~HasRoot(heap, pn1)
    /\ Out = <<"/","x">>

\* a pass of the loop of pname_join is about to take the segment pe2
Joining == ppc = "join" /\ JoinMore(heap, pn2)
Incoming == heap[pn2].next
IncomingDotDot == Name(heap, Incoming) = <<".", ".">>
BaseList == List(heap, pn1)
BaseLast == BaseList[Len(BaseList)]

\* C6: a ".." of the addition that finds a last segment of the base which
\* is not the root marker removes exactly that segment and is dropped
\* itself, the segments before it unchanged; join("/usr/local", "../bin")
\* is "/usr/bin".
C6_DotDotAscends ==
    /\ [][(Joining /\ IncomingDotDot /\ BaseList # <<>> /\ ~IsRootNode(heap, BaseLast))
            => /\ List(heap', pn1) = Front(BaseList)
               /\ \A i \in 1..(Len(BaseList) - 1) :
                    Name(heap', BaseList[i]) = Name(heap, BaseList[i])
               /\ List(heap', pn2) = Tail(List(heap, pn2))]_vars
    /\ [](Made /\ psPath1 = <<"/","u","s","r","/","l","o","c","a","l">>
               /\ psPath2 = <<".",".","/","b","i","n">>
            => Out = <<"/","u","s","r","/","b","i","n">>)

\* C6 witness: join("/usr/local", "../bin") has produced "/usr/bin"
C6_Witness ==
    /\ Made
    /\ psPath1 = <<"/","u","s","r","/","l","o","c","a","l">>
    /\ psPath2 = <<".",".","/","b","i","n">>
    /\ Out = <<"/","u","s","r","/","b","i","n">>

\* C7: a ".." of the addition that finds the base empty or ending in the
\* root marker leaves the base as it is and raises no error; an absolute
\* base gives a result that still starts with the root marker, and
\* join("/", "..") is "/".
C7_NoAscentAboveRoot ==
    /\ [][(Joining /\ IncomingDotDot /\ (BaseList = <<>> \/ IsRootNode(heap, BaseLast)))
            => /\ List(heap', pn1) = BaseList
               /\ List(heap', pn2) = Tail(List(heap, pn2))
               /\ nomem' = nomem]_vars
    /\ [](Made /\ psPath1 # <<>> /\ psPath1[1] \in Sep
            => /\ List(heap, pn1) # <<>>
               /\ IsRootNode(heap, List(heap, pn1)[1])
               /\ Head(Out) = "/")
    /\ [](Made /\ psPath1 = <<"/">> /\ psPath2 = <<".", ".">> => Out = <<"/">>)

\* C7 witness: join("/", "..") has produced "/" from a list that still
\* holds the root marker
C7_Witness ==
    /\ Made
    /\ psPath1 = <<"/">>
    /\ psPath2 = <<".", ".">>
    /\ List(heap, pn1) # <<>>
    /\ Out = <<"/">>

\* join("", psPath2): the addition scanned beside an empty base list
AloneHeap == pname_create(<<Node(1, 1, 1, 0, 0)>>, -1, 2).heap
AloneOut == CStr(Written(pname_join(AloneHeap, 1, 2), 1))

\* C8: when the addition starts with a separator the result does not
\* depend on the base: it is join("", addition); join("/a", "/b") is "/b".
C8_AbsoluteReplaces ==
    /\ Made /\ psPath2 # <<>> /\ psPath2[1] \in Sep => Out = AloneOut
    /\ Made /\ psPath1 = <<"/","a">> /\ psPath2 = <<"/","b">> => Out = <<"/","b">>

\* C8 witness: join("/a", "/b") has produced "/b"
C8_Witness ==
    Made /\ psPath1 = <<"/","a">> /\ psPath2 = <<"/","b">> /\ Out = <<"/","b">>

\* a string in canonical form: no separator doubled, none at the end unless
\* the string is "/", no backslash, no segment that is a single dot
Canonical(s) ==
    /\ \A i \in 1..Len(s) : s[i] # "\\"
    /\ \A i \in 1..(Len(s) - 1) : ~(s[i] = "/" /\ s[i + 1] = "/")
    /\ s = <<"/">> \/ s = <<>> \/ s[Len(s)] # "/"
    /\ \A i \in 1..Len(s) :
         ~(/\ s[i] = "."
           /\ (i = 1 \/ s[i - 1] = "/")
           /\ (i = Len(s) \/ s[i + 1] = "/"))

\* the segment nodes allocated so far: every node but the two sentinels
\* and the root markers
Segments == {p \in 1..Len(heap) : p # pn1 /\ p # pn2 /\ ~IsRootNode(heap, p)}

\* C9: every segment either scan produces is non-empty, holds no separator
\* and is not "."; the output holds no empty segment, no doubled separator
\* and no "." segment; join("/a", "./b/./c") is "/a/b/c".
C9_SegmentsClean ==
    /\ ppc \in {"create2", "join"} =>
         \A p \in Segments :
            /\ heap[p].len >= 1
            /\ \A k \in 1..heap[p].len : Name(heap, p)[k] \notin Sep \cup {NUL}
            /\ Name(heap, p) # <<".">>
    /\ Made => Canonical(Out)
    /\ Made /\ psPath1 = <<"/","a">> /\ psPath2 = <<".","/","b","/",".","/","c">>
         => Out = <<"/","a","/","b","/","c">>

\* C9 witness: join("/a", "./b/./c") has produced "/a/b/c"
C9_Witness ==
    /\ Made
    /\ psPath1 = <<"/","a">>
    /\ psPath2 = <<".","/","b","/",".","/","c">>
    /\ Out = <<"/","a","/","b","/","c">>

\* C10: no node is ever freed twice; when pname_append has returned, every
\* node it allocated has been freed exactly once, and if an allocation
\* failed it has returned NULL.
C10_AllFreedOnce ==
    /\ \A p \in 1..Len(heap) : heap[p].frees <= 1
    /\ ppc = "done" => \A p \in 1..Len(heap) : heap[p].frees = 1
    /\ ppc = "done" /\ nomem => ps = NullBuf

\* C10 witness: the scan of psPath2 failed after allocating a segment, the
\* base list holding segments too, and pname_append has returned
C10_Witness ==
    /\ ppc = "done"
    /\ nomem
    /\ pn1 # NULL
    /\ pn2 = NULL
    /\ Len(heap) >= 5
    /\ heap[Len(heap)].str = 2
    /\ heap[Len(heap)].len < Len(psPath2)

(***************************************************************************)
(* Claims about the UART device, checked under SpecUart.                   *)
(***************************************************************************)
\* the task is between the two stores of IOC_RQ_PURGE
InPurge == tpc = "l135"

\* C1: outside a purge, the pending count (wptr - rptr) mod NDATA is the
\* number of bytes received and not yet read, and that number never exceeds
\* NDATA - 1; the receive routine finds the buffer full (wptr == wend)
\* exactly when NDATA - 1 bytes are unread; IOC_RQ_COUNT reports the number
\* of unread bytes.
C1_PendingCount ==
    /\ ~InPurge => Len(pending) <= NDATA - 1
    /\ ~InPurge => Mask(wptr - rptr) = Len(pending)
    /\ \A c \in Ctx :
         upc[c] = "loop" /\ ~InPurge => ((wptr = wend[c]) <=> (Len(pending) = NDATA - 1))
    /\ tpc = "l158" => count = atcount

\* C1 witness: IOC_RQ_COUNT has just reported NDATA - 2 unread bytes that
\* wrap around the end of the buffer
C1_Witness == tpc = "l158" /\ count = NDATA - 2 /\ wptr < rptr

\* C2: every step that touches rptr, wptr, data, RTS or RXIM is taken by a
\* context that holds the critical section.
C2_AllAccessInCriticalSection == acc # "none" => ucs = acc

\* the unread bytes are still in the buffer, in order, from rptr on
UnreadIntact ==
    \A i \in 1..Len(pending) : data[Mask(rptr + i - 1)] = pending[i]

\* C3: uart_input never overwrites unread data (it takes no byte from the
\* hardware while NDATA - 1 bytes are unread), and when it reaches its exit
\* with the buffer full, RTS is deasserted and the receive interrupt masked.
C3_Backpressure ==
    /\ ~InPurge => UnreadIntact
    /\ \A c \in Ctx :
         upc[c] = "loop" /\ Mask(wptr + 1) = Mask(rptr) => ~UiMore(c)
    /\ \A c \in Ctx :
         upc[c] = "exit" /\ Mask(wptr + 1) = Mask(rptr) => ~rts /\ ~rxim

\* C3 witness: the interrupt's uart_input is at its exit with a full buffer
C3_Witness ==
    upc["irq"] = "exit" /\ Mask(wptr + 1) = Mask(rptr) /\ Len(pending) = NDATA - 1

ReadPcs == {"ui84", "l85", "l92", "ui96", "l98", "l100", "l100b", "l110", "l113"}

\* C4: every step by which uart_read returns ends with RTS asserted and the
\* receive interrupt enabled.
C4_ReadExitRearms ==
    [][(tpc \in ReadPcs /\ tpc' = "idle") => (rts' /\ rxim')]_vars

\* C4 witness: uart_read is about to return after a timeout, nothing read
C4_Witness == tpc = "l113" /\ expired /\ nread = 0

(***************************************************************************)
(* The flash adapter and the construction of the adapters (SpecBackend).   *)
(***************************************************************************)
\* how many times the last call called fn
Times(fn) == Len(SelectSeq(call.log, LAMBDA c : c[1] = fn))

\* the results the last call got from lfs_mount, in order
MountsTried == SelectSeq(call.log, LAMBDA c : c[1] = "lfs_mount")

\* the result the last call got from the backend library: there is at most
\* one library call in the log of an operation other than pfs_ffs_create,
\* and it comes first
Lib == {"lfs_file_open", "lfs_file_close", "lfs_file_read", "lfs_file_write",
        "lfs_file_seek", "lfs_stat", "lfs_rename", "lfs_remove", "lfs_mkdir",
        "lfs_dir_open", "lfs_dir_read", "lfs_dir_close"}

Reached == call.log # <<>> /\ call.log[1][1] \in Lib

\* pfs_ffs_create has returned, its allocation having succeeded
FfsCreated == call.op = "pfs_ffs_create" /\ call.log # <<>>

\* C11: pfs_ffs_create calls lfs_mount first; it calls lfs_format exactly
\* when that mount failed, once, right after it, and mounts again at most
\* once and only after the format; it returns the instance exactly when the
\* last mount it tried succeeded, and otherwise frees the instance once and
\* returns NULL.
C11_MountProtocol ==
    FfsCreated =>
        /\ call.log[1][1] = "lfs_mount"
        /\ (Times("lfs_format") = 1) = (call.log[1][2] < 0)
        /\ Times("lfs_format") <= 1
        /\ Times("lfs_mount") <= 2
        /\ Times("lfs_format") = 1 => call.log[2][1] = "lfs_format"
        /\ Times("lfs_mount") = 2 =>
              /\ Times("lfs_format") = 1
              /\ call.log[2][2] = 0
              /\ call.log[3][1] = "lfs_mount"
        /\ (call.ret # NULL) = (MountsTried[Len(MountsTried)][2] >= 0)
        /\ call.ret # NULL => call.ret \in Mounts /\ Times("pfs_free") = 0
        /\ call.ret = NULL => Times("pfs_free") = 1

\* C11 witness: an unformatted flash was mounted after one format
C11_Witness ==
    /\ FfsCreated
    /\ call.log = <<<<"lfs_mount", -84>>, <<"lfs_format", 0>>, <<"lfs_mount", 0>>>>
    /\ call.ret # NULL
    /\ flash

\* the entries the capability set of handle h leaves out
Unset(h) ==
    IF files[h].entry = "uart_v_file" THEN {"close", "lseek", "fstat", "isatty"}
    ELSE IF files[h].entry = "ffs_v_file" THEN {"isatty", "ioctl"}
    ELSE {}

\* the step is a call of entry e through the handle h
Calls(h, e) == call'.n = call.n + 1 /\ call'.op = e /\ call'.arg = <<h>>

\* C12: close, lseek, fstat and isatty are absent from the capability set of
\* a UART handle, isatty and ioctl from that of a flash file handle, and a
\* call through any of them returns the failure sentinel with NotSupported
\* as the last error and leaves the handles, the backend instances, the
\* peripherals and the ring buffer as they were.
C12_AbsentEntryNotSupported ==
    /\ [](\A h \in 1..Len(files) : \A e \in Unset(h) : VTable(h)[e] = Absent)
    /\ [][\A h \in 1..Len(files) : \A e \in Unset(h) :
            Calls(h, e) =>
               /\ call'.ret = -1
               /\ errno' = ENOTSUP
               /\ UNCHANGED <<files, uart_dev, dheap, uhw, gpio, flash, fheap, uvars>>]_vars

\* C12 witness: close was called on the handle of a UART that holds an
\* unread byte, and was refused
C12_Witness ==
    /\ call.op = "close"
    /\ call.ret = -1
    /\ errno = ENOTSUP
    /\ files[call.arg[1]].entry = "uart_v_file"
    /\ dheap[files[call.arg[1]].pfs].wptr = 1

\* the last call was a construction that failed: its allocation failed, the
\* backend returned an error, the uid was out of range, or uopen returned
\* false
ConstructionFailed ==
    \/ /\ call.op \in {"ffs_open", "ffs_opendir"}
       /\ (~Reached \/ call.log[1][2] < 0)
    \/ /\ call.op = "pfs_ffs_create"
       /\ (call.log = <<>> \/ MountsTried[Len(MountsTried)][2] < 0)
    \/ /\ call.op = "pfs_dev_uart_create"
       /\ (call.log = <<>> \/ call.log[1] = <<"uopen", 0>>)

\* C13: a construction that failed has returned NULL, has freed what it
\* allocated once (nothing when the allocation itself failed), and has left
\* no handle, no filesystem instance, no device and no slot of uart_dev
\* behind for the object it gave up.
C13_NoPartialConstruction ==
    ConstructionFailed =>
        /\ call.ret = NULL
        /\ Times("pfs_free") =
              IF call.log = <<>> \/ call.log[1][1] = "pfs_error" THEN 0 ELSE 1
        /\ call.op = "pfs_dev_uart_create" /\ call.arg[1] \in {0, 1} /\ call.log # <<>>
              => uart_dev[call.arg[1]] = NULL

\* the operations of the flash adapter on a mounted instance
FlashOps == {"ffs_open", "ffs_close", "ffs_read", "ffs_write", "ffs_lseek",
             "ffs_stat", "ffs_fstat", "ffs_rename", "ffs_delete", "ffs_mkdir",
             "ffs_rmdir", "ffs_opendir", "ffs_readdir", "ffs_closedir"}

\* the failure sentinel of an operation
Sentinel(op) == IF op \in {"ffs_open", "ffs_opendir", "ffs_readdir"} THEN NULL ELSE -1

\* the codes the last call recorded as the last error
ErrorsSet == {call.log[i][2] : i \in {j \in 1..Len(call.log) :
                   call.log[j][1] = "pfs_error" /\ call.log[j][2] # 0}}

\* C14: when the backend library has returned a negative code to an
\* operation of the flash adapter, the operation has returned its failure
\* sentinel and recorded that code as the last error; when the library has
\* returned 0 or more, no error has been recorded and the operation has
\* returned that result (open and opendir the new handle, readdir the entry,
\* or NULL at the end of the directory).
C14_BackendErrorsTranslated ==
    call.op \in FlashOps /\ Reached =>
        LET r == call.log[1][2]
        IN IF r < 0
           THEN /\ call.ret = Sentinel(call.op)
                /\ ErrorsSet = {r}
                /\ errno = r
           ELSE /\ ErrorsSet = {}
                /\ CASE call.op \in {"ffs_open", "ffs_opendir"} ->
                            call.ret \in 1..Len(files)
                     [] call.op = "ffs_readdir" -> (call.ret = NULL) = (r = 0)
                     [] OTHER -> call.ret = r

(***************************************************************************)
(* uart_read and uart_ioctl in detail (SpecUart).                          *)
(***************************************************************************)
\* how far a read that finds nothing has come on its way out
Rank(pc) ==
    CASE pc = "ui84" -> 0
      [] pc = "l85" -> 1
      [] pc = "l110" -> 2
      [] pc = "l113" -> 3
      [] OTHER -> 4

\* a non-blocking read is in progress, has copied nothing, and the ring
\* buffer is empty
NothingToRead ==
    mode.nblock /\ tpc \in ReadPcs /\ nread = 0 /\ stored = NUL /\ rptr = wptr

\* C15: a non-blocking uart_read that finds the ring buffer empty is never
\* in the waiting loop of lines 92-97; as long as no byte arrives in the
\* hardware, each of its steps leaves rptr and wptr alone and takes it
\* nearer to its return, and it returns 0.
C15_NonBlockingReturnsZero ==
    /\ [](NothingToRead => tpc \in {"ui84", "l85", "l110", "l113"})
    /\ [][NothingToRead /\ rxfifo = <<>> /\ rxfifo' = <<>> =>
             /\ rptr' = rptr
             /\ wptr' = wptr
             /\ Rank(tpc') >= Rank(tpc)
             /\ tpc' # "idle" => nread' = 0
             /\ tpc' = "idle" => tpc = "l113"]_vars

\* C15 witness: a non-blocking read of 2 bytes with a timeout set is about
\* to return 0 from an empty buffer
C15_Witness ==
    /\ NothingToRead
    /\ rxfifo = <<>>
    /\ tpc = "l113"
    /\ length = 2
    /\ tout > 0

\* the step completes line 100 and runs lines 101-108 for the byte stored
CountsByte == tpc \in {"l100", "l100b"} /\ nread' = nread + 1

C17_TimeoutBoundsRead ==
    /\ (tout > 0 /\ tpc \in ReadPcs) ~> (tpc = "idle")
    /\ [][expired /\ tpc' # "idle" => expired']_vars
    /\ [](expired => tpc # "ui96")
    /\ [][tout = 0 /\ (tpc \in {"l92", "ui96"}) /\ rptr = wptr /\ wptr' = wptr
             => tpc' \in {"l92", "ui96"}]_vars

\* C17 witness: a read of 2 bytes is about to return 1 byte after its
\* deadline has passed
C17_Witness ==
    /\ tout > 0
    /\ tpc = "l113"
    /\ expired
    /\ nread = 1 /\ length = 1

\* the last purge returned and no byte has been stored since
Purged == purged \in {"clean", "raced"}

\* C18: from the return of IOC_RQ_PURGE until a byte is stored the ring
\* buffer holds nothing, and an IOC_RQ_COUNT made in that time reports 0,
\* also when the interrupt handler stored bytes between the two resets.
C18_PurgeYieldsZero ==
    /\ [](Purged => rptr = 0 /\ wptr = 0)
    /\ [](Purged /\ tpc = "l158" => count = 0)

\* C18 witness: IOC_RQ_COUNT answers after a purge during which the handler
\* stored a byte between the reset of rptr and the reset of wptr
C18_Witness ==
    /\ purged = "raced"
    /\ tpc = "l158"
    /\ count = 0

\* the step is a uart_ioctl the code has to reject: an unknown request, or
\* IOC_RQ_SCFG with a field out of range
IoctlRejected ==
    /\ call'.n = call.n + 1
    /\ call'.op = "uart_ioctl"
    /\ \/ call'.arg[2] = "unknown"
       \/ call'.arg[2] = "IOC_RQ_SCFG" /\ BadFormat(call'.arg[3])

\* C19: a uart_ioctl with an unknown request, or with a serial configuration
\* whose data bits, stop bits or parity are out of range, reports EINVAL
\* through pfs_error, returns -1 and leaves the peripheral (baud rate, line
\* format) and the device (mode, timeout, indices) as they were.
C19_IoctlRejectsWithoutEffect ==
    [][IoctlRejected =>
         /\ call'.log = Err(EINVAL)
         /\ call'.ret = -1
         /\ errno' = EINVAL
         /\ UNCHANGED <<uart_dev, dheap, uhw, gpio, files, flash, fheap>>]_vars

\* C19 witness: IOC_RQ_SCFG with 9 data bits and a baud rate that is not the
\* current one was rejected on a device that has received a byte
C19_Witness ==
    /\ call.op = "uart_ioctl"
    /\ call.arg[2] = "IOC_RQ_SCFG"
    /\ call.arg[3].data = 9
    /\ call.arg[3].baud # 0
    /\ call.ret = -1
    /\ errno = EINVAL
    /\ \E uid \in {0, 1} :
         /\ uart_dev[uid] # NULL
         /\ uhw[uid].on
         /\ uhw[uid].baud # call.arg[3].baud
         /\ dheap[uart_dev[uid]].wptr # 0

\* a pin the configuration requests is not one of the peripheral's pins for
\* its function (0 tx, 1 rx, 2 cts, 3 rts)
InvalidPin(uid, sc) ==
    \/ sc.tx >= 0 /\ ~uart_pin_valid(uid, 0, sc.tx)
    \/ sc.rx >= 0 /\ ~uart_pin_valid(uid, 1, sc.rx)
    \/ sc.cts >= 0 /\ ~uart_pin_valid(uid, 2, sc.cts)
    \/ sc.rts >= 0 /\ ~uart_pin_valid(uid, 3, sc.rts)

\* C20: a pfs_dev_uart_create whose configuration requests a pin that is
\* not valid for the chosen peripheral switches no pin to the UART function.
C20_PinsValidatedBeforeCommit ==
    [][/\ call'.n = call.n + 1
       /\ call'.op = "pfs_dev_uart_create"
       /\ call'.arg[1] \in {0, 1}
       /\ InvalidPin(call'.arg[1], call'.arg[2])
       => gpio' = gpio]_vars

\* the step is a call of ffs_stat or ffs_fstat
StatStep == call'.n = call.n + 1 /\ call'.op \in {"ffs_stat", "ffs_fstat"}

\* C21: when lfs_stat fails, ffs_stat returns -1 with the code as the last
\* error and leaves the caller's buffer as it was; when it succeeds, ffs_stat
\* returns 0 with st_size and st_blocks the size the library reported,
\* st_blksize 1, st_nlink 1, and st_mode the three rwx sets and one type bit,
\* S_IFDIR exactly when the entry is a directory and S_IFREG otherwise; an
\* empty regular file is reported with size 0 and S_IFREG.
C21_StatReport ==
    [][StatStep =>
         LET r == call'.log[1][2]
             name == call'.arg[1]
         IN IF r < 0
            THEN /\ call'.ret = -1
                 /\ errno' = r
                 /\ buf' = buf
            ELSE /\ call'.ret = 0
                 /\ name \in DOMAIN tree
                 /\ call'.log[2] = <<"info.type", tree[name].type>>
                 /\ buf'.st_size = call'.log[3][2]
                 /\ buf'.st_blocks = call'.log[3][2]
                 /\ buf'.st_blksize = 1
                 /\ buf'.st_nlink = 1
                 /\ AllAccess \subseteq buf'.st_mode
                 /\ buf'.st_mode \ AllAccess =
                       {IF tree[name].type = LFS_TYPE_DIR THEN "S_IFDIR" ELSE "S_IFREG"}
                 /\ tree[name].type = LFS_TYPE_REG => buf'.st_size = tree[name].size
                 /\ tree[name] = Reg(0) =>
                       buf'.st_size = 0 /\ "S_IFREG" \in buf'.st_mode]_vars

\* C21 witness: ffs_stat of the file that the ffs_open before it created on
\* an empty filesystem
C21_Witness ==
    /\ call.op = "ffs_stat"
    /\ call.arg = <<"f">>
    /\ call.n = 3
    /\ call.ret = 0
    /\ Len(files) = 1
    /\ DOMAIN tree = {"f"}
    /\ buf = Stat(0, 1, 0, 1, AllAccess \cup {"S_IFREG"}, 0)

\* the step is a call of op on a path
RemoveStep(op) == call'.n = call.n + 1 /\ call'.op = op

\* what the step did
Shown == [ret |-> call'.ret, errno |-> errno', tree |-> tree', log |-> call'.log]

\* C26: on every filesystem and path, and whether or not the library fails,
\* ffs_rmdir and ffs_delete make the same library call, return the same
\* value, record the same error and leave the same filesystem; every call of
\* one of them does what the other would have done in its place.
C26_RmdirIsDelete ==
    /\ [](\A name \in Paths, io \in BOOLEAN :
            ffs_rmdir(tree, errno, name, io) = ffs_delete(tree, errno, name, io))
    /\ [][RemoveStep("ffs_rmdir") =>
            \E io \in BOOLEAN : Shown = ffs_delete(tree, errno, call'.arg[1], io)]_vars
    /\ [][RemoveStep("ffs_delete") =>
            \E io \in BOOLEAN : Shown = ffs_rmdir(tree, errno, call'.arg[1], io)]_vars

\* C26 witness: ffs_rmdir has removed the regular file the flash held at the
\* start
C26_Witness ==
    /\ call.op = "ffs_rmdir"
    /\ call.arg = <<"f">>
    /\ call.n = 2
    /\ call.ret = 0
    /\ DOMAIN tree = {"d"}
    /\ tree["d"] = Dir(1)

\* the step is a call of disk_read or disk_write
DiskIo == call'.n = call.n + 1 /\ call'.op \in {"disk_read", "disk_write"}

\* the step is a call of disk_initialize
DiskInitStep == call'.n = call.n + 1 /\ call'.op = "disk_initialize"

\* the physical sectors of cnt logical sectors from sector when the base
\* sector is base, in order
Physical(base, sector, cnt) == [i \in 1..cnt |-> Lba(base + sector + i - 1)]

\* the physical sectors the step's driver calls were given, in order
Touched == [i \in 1..Len(call'.log) |-> call'.log[i][2]]

\* the start sector of the first entry of type 0x0C, 0 when there is none
RECURSIVE FirstFat(_, _)
FirstFat(parts, iPar) ==
    IF iPar > 4 THEN 0
    ELSE IF parts[iPar].type = 12 THEN Lba(parts[iPar].lba)
    ELSE FirstFat(parts, iPar + 1)

\* iStat is clear exactly from a disk_initialize that returned 0 to the next
\* disk_initialize, and a disk_read or disk_write made while it is set
\* calls no driver function and returns RES_NOTRDY
DiskReady ==
    /\ DiskInitStep => (iStat' = 0 <=> call'.ret = 0)
    /\ ~DiskInitStep => iStat' = iStat
    /\ DiskIo /\ iStat = STA_NOINIT => call'.log = <<>> /\ call'.ret = RES_NOTRDY

\* a disk_read or disk_write made while iStat is clear gives the driver the
\* sectors lba_base + sector onwards, one by one and up to the first that
\* fails: all count of them when it returns RES_OK; the base does not change
DiskOffset ==
    DiskIo /\ iStat = 0 =>
        LET want == Physical(lba_base, call'.arg[1], call'.arg[2])
        IN /\ Len(Touched) <= Len(want)
           /\ Touched = SubSeq(want, 1, Len(Touched))
           /\ call'.ret = RES_OK => Touched = want
           /\ \A i \in 1..Len(call'.log) :
                call'.log[i][1] = IF call'.op = "disk_read"
                                  THEN "sd_spi_read" ELSE "sd_spi_write"
           /\ lba_base' = lba_base

\* a disk_initialize whose driver initialisation succeeded reads physical
\* sector 0, once, and nothing else
DiskTableAtZero ==
    DiskInitStep /\ call'.log[1][2] = 1 =>
        /\ Len(call'.log) = 2
        /\ call'.log[2] = <<"sd_spi_read", 0>>

\* C22: no driver call is made by disk_read or disk_write unless the last
\* disk_initialize succeeded; after it they touch the physical sectors
\* base + s .. base + s + c - 1, base being the start sector of the first
\* partition entry of type 0x0C when sector 0 carries the boot signature and
\* 0 otherwise; disk_initialize reads the table from physical sector 0.
C22_SectorsOffsetByPartition ==
    [][/\ DiskReady
       /\ DiskOffset
       /\ DiskTableAtZero
       /\ DiskInitStep /\ call'.ret = 0 =>
             lba_base' = IF mbr.sig THEN FirstFat(mbr.parts, 1) ELSE 0]_vars

\* C25: the bytes pname_mkname has written into the buffer it returned, the
\* terminating NUL included, are no more than the nlen + 1 bytes it asked
\* pfs_malloc for.
C25_MknameWithinBuffer ==
    Made => Len(ps.bytes) <= ps.size

\* neither uart_read nor uart_ioctl nor uart_input is executing
Quiet == tpc = "idle" /\ ucs = "free" /\ \A c \in Ctx : upc[c] = "none"

\* the ring buffer holds NDATA - 1 bytes
Full == Mask(wptr + 1) = rptr

\* C24: whenever no read, no ioctl and no receive routine is executing and
\* the ring buffer is not full, RTS is asserted and the receive interrupt is
\* unmasked.
C24_NoStaleBackpressure ==
    Quiet /\ ~Full => rts /\ rxim

\* C23: the byte uart_read copies is the oldest byte taken from the hardware
\* and not yet returned, whatever the receive interrupt stores before or
\* after the copy; the step that counts it removes exactly that byte from
\* the unread ones and hands it on unchanged, but for a matched terminator
\* under IOC_MD_TLF, which becomes '\n'; and nothing else than a read or a
\* purge removes an unread byte.
C23_FifoDelivery ==
    /\ [](tpc = "l100" => pending # <<>> /\ stored = Head(pending))
    /\ [][(tpc = "l100") /\ tpc' # "l100" => pending' = Tail(pending)]_vars
    /\ [][nread' = nread + 1 =>
            stored' = IF mode.chr /\ stored = mode.term /\ mode.tlf
                      THEN "\n" ELSE stored]_vars
    /\ [][Len(pending') < Len(pending) => tpc \in {"l100", "l135"}]_vars
    /\ [][Len(pending') > Len(pending) =>
            /\ rxfifo # <<>>
            /\ pending' = Append(pending, Head(rxfifo))
            /\ rxfifo' = Tail(rxfifo)]_vars

\* C23 witness: the second byte of a read has been copied and not yet
\* counted, and the interrupt handler, entered after the copy, has stored a
\* byte behind it
C23_Witness ==
    /\ tpc = "l100"
    /\ nread = 1
    /\ upc["irq"] = "exit"
    /\ Len(pending) >= 2
    /\ stored = Head(pending)
    /\ pending[Len(pending)] # stored

=============================================================================
